---- MODULE Spec2Model ----
(***************************************************************************)
(* iHosts: the hosts-file codec (HostsParser), the main-process write path *)
(* (HostsFileManager.writeHosts) and the renderer's change-tracking store  *)
(* (useHostsStore) with the Header save action.                            *)
(*                                                                         *)
(* A JavaScript string is a sequence of one-character strings, so that     *)
(* split, trim, startsWith, the comment regular expression and the address *)
(* regular expressions are computed character by character.                *)
(***************************************************************************)
EXTENDS Integers, Sequences, FiniteSets, TLC

(***************************************************************************)
(* Characters and JavaScript string primitives                             *)
(***************************************************************************)

\* the value of an absent optional field (comment, group)
Undefined == <<"undefined">>

\* the null returned by parseEntryLine
Null == [null |-> TRUE]

Digits == {"0", "1", "2", "3", "4", "5", "6", "7", "8", "9"}

HexDigits == Digits \cup {"a", "b", "c", "d", "e", "f", "A", "B", "C", "D", "E", "F"}

Letters ==
  {"a", "b", "c", "d", "e", "f", "g", "h", "i", "j", "k", "l", "m",
   "n", "o", "p", "q", "r", "s", "t", "u", "v", "w", "x", "y", "z",
   "A", "B", "C", "D", "E", "F", "G", "H", "I", "J", "K", "L", "M",
   "N", "O", "P", "Q", "R", "S", "T", "U", "V", "W", "X", "Y", "Z"}

\* the characters \s matches and trim() strips
IsWs(c) == c \in {" ", "\t", "\r", "\n"}

DigitVal(c) ==
  CASE c = "0" -> 0 [] c = "1" -> 1 [] c = "2" -> 2 [] c = "3" -> 3
    [] c = "4" -> 4 [] c = "5" -> 5 [] c = "6" -> 6 [] c = "7" -> 7
    [] c = "8" -> 8 [] c = "9" -> 9

Min(S) == CHOOSE x \in S : \A y \in S : x <= y

Max(S) == CHOOSE x \in S : \A y \in S : y <= x

\* index of the first non-whitespace character at or after i, Len(s) + 1 when none
FirstNonWs(s, i) == Min({ j \in i..Len(s) : ~IsWs(s[j]) } \cup {Len(s) + 1})

\* index of the last non-whitespace character at or before j, 0 when none
LastNonWs(s, j) == Max({ i \in 1..j : ~IsWs(s[i]) } \cup {0})

\* String.prototype.trim
Trim(s) ==
  LET a == FirstNonWs(s, 1)
      b == LastNonWs(s, Len(s))
  IN  IF a > b THEN <<>> ELSE SubSeq(s, a, b)

\* String.prototype.startsWith("#")
StartsWithHash(s) == Len(s) > 0 /\ s[1] = "#"

\* String.prototype.substring(1)
Substring1(s) == SubSeq(s, 2, Len(s))

\* the k-th smallest element of a finite set of integers
Nth(P, k) == CHOOSE p \in P : Cardinality({ q \in P : q < p }) = k - 1

\* String.prototype.split(c) for a one-character separator c
Split(s, c) ==
  LET P == { i \in 1..Len(s) : s[i] = c }
      n == Cardinality(P)
      pos(k) == IF k = 0 THEN 0 ELSE IF k = n + 1 THEN Len(s) + 1 ELSE Nth(P, k)
  IN  [k \in 1..(n + 1) |-> SubSeq(s, pos(k - 1) + 1, pos(k) - 1)]

RECURSIVE SplitStrFrom(_, _, _, _)
SplitStrFrom(s, sep, i, start) ==
  IF i + Len(sep) - 1 > Len(s) THEN <<SubSeq(s, start, Len(s))>>
  ELSE IF SubSeq(s, i, i + Len(sep) - 1) = sep
       THEN <<SubSeq(s, start, i - 1)>>
              \o SplitStrFrom(s, sep, i + Len(sep), i + Len(sep))
       ELSE SplitStrFrom(s, sep, i + 1, start)

\* String.prototype.split(sep) for a literal separator of several characters:
\* the matches are taken left to right and do not overlap
SplitStr(s, sep) == SplitStrFrom(s, sep, 1, 1)

\* String.prototype.split(/\s+/): the maximal runs of non-whitespace, with an
\* empty first (last) piece when s starts (ends) with whitespace
SplitWs(s) ==
  IF s = <<>> THEN <<<<>>>>
  ELSE LET Starts == { i \in 1..Len(s) : ~IsWs(s[i]) /\ (i = 1 \/ IsWs(s[i - 1])) }
           Ends   == { i \in 1..Len(s) : ~IsWs(s[i]) /\ (i = Len(s) \/ IsWs(s[i + 1])) }
           tokens == [k \in 1..Cardinality(Starts) |->
                        SubSeq(s, Nth(Starts, k), Nth(Ends, k))]
       IN  (IF IsWs(s[1]) THEN <<<<>>>> ELSE <<>>)
             \o tokens
             \o (IF IsWs(s[Len(s)]) THEN <<<<>>>> ELSE <<>>)

RECURSIVE Join(_, _)
\* Array.prototype.join(sep)
Join(parts, sep) ==
  IF Len(parts) = 0 THEN <<>>
  ELSE IF Len(parts) = 1 THEN parts[1]
  ELSE parts[1] \o sep \o Join(Tail(parts), sep)

\* index of the first "#" at or after i, 0 when there is none
IndexOfHash(s, i) ==
  LET P == { j \in i..Len(s) : s[j] = "#" }
  IN  IF P = {} THEN 0 ELSE Min(P)

RECURSIVE ToNumber(_, _)
\* Number(part) for a string of decimal digits
ToNumber(s, acc) ==
  IF s = <<>> THEN acc ELSE ToNumber(Tail(s), 10 * acc + DigitVal(s[1]))

(***************************************************************************)
(* HostsParser                                                             *)
(***************************************************************************)

\* /^(\d{1,3}\.){3}\d{1,3}$/
ipv4Regex(ip) ==
  LET parts == Split(ip, ".")
  IN  /\ Len(parts) = 4
      /\ \A k \in 1..4 :
           /\ Len(parts[k]) \in 1..3
           /\ \A n \in 1..Len(parts[k]) : parts[k][n] \in Digits

\* /^([0-9a-fA-F]{1,4}:){7}[0-9a-fA-F]{1,4}$|^::1$|^::$/
ipv6Regex(ip) ==
  LET parts == Split(ip, ":")
  IN  \/ /\ Len(parts) = 8
         /\ \A k \in 1..8 :
              /\ Len(parts[k]) \in 1..4
              /\ \A n \in 1..Len(parts[k]) : parts[k][n] \in HexDigits
      \/ ip = <<":", ":", "1">>
      \/ ip = <<":", ":">>

\* s.split(":").filter(Boolean).length
GroupCount(s) == Len(SelectSeq(Split(s, ":"), LAMBDA g : g # <<>>))

isValidIP(ip) ==
  IF ipv4Regex(ip)
  THEN \A part \in { Split(ip, ".")[k] : k \in 1..4 } : ToNumber(part, 0) <= 255
  ELSE IF ipv6Regex(ip) THEN TRUE
  ELSE LET parts == SplitStr(ip, <<":", ":">>)
       IN  /\ Len(parts) >= 2          \* ip.includes("::")
           /\ Len(parts) = 2
           /\ GroupCount(parts[1]) + GroupCount(parts[2]) <= 8

\* the match of /#\s*(.+)$/ on line: Undefined when there is none, else the
\* trimmed capture.  The leftmost "#" that has a character after it matches;
\* \s* is greedy and gives one character back when nothing else is left.
commentOf(line) ==
  LET p == IndexOfHash(line, 1)
  IN  IF p = 0 \/ p = Len(line) THEN Undefined
      ELSE LET j == FirstNonWs(line, p + 1)
               capture == IF j <= Len(line) THEN SubSeq(line, j, Len(line))
                          ELSE SubSeq(line, Len(line), Len(line))
           IN  Trim(capture)

\* the hostnames of a split line: parts.slice(1).filter(h => h && !h.startsWith("#"))
hostnamesOf(parts) ==
  SelectSeq(Tail(parts), LAMBDA h : h # <<>> /\ ~StartsWithHash(h))

\* parseEntryLine without the address check
parseEntryLine_AnyAddress(line, entryId) ==
  LET parts == SplitWs(line)
  IN  IF Len(parts) < 2 THEN Null
      ELSE [id        |-> <<"entry", entryId>>,
            ip        |-> parts[1],
            hostnames |-> hostnamesOf(parts),
            enabled   |-> TRUE,
            comment   |-> commentOf(line),
            group     |-> Undefined]

parseEntryLine(line, entryId) ==
  LET parts == SplitWs(line)
  IN  IF Len(parts) < 2 THEN Null
      ELSE IF ~isValidIP(parts[1]) THEN Null
      ELSE [id        |-> <<"entry", entryId>>,
            ip        |-> parts[1],
            hostnames |-> hostnamesOf(parts),
            enabled   |-> TRUE,
            comment   |-> commentOf(line),
            group     |-> Undefined]

\* handleCommentLine that does not look at the line before
handleCommentLine_AnyPrevious(line, entries, lineIndex, allLines) ==
  IF Len(entries) = 0 \/ lineIndex = 1 THEN entries
  ELSE LET comment == Trim(Substring1(line))
       IN  IF comment # <<>>
           THEN [entries EXCEPT ![Len(entries)].comment = comment]
           ELSE entries

\* entries after handleCommentLine(line, entries, lineIndex, allLines);
\* lineIndex counts from 1 here (from 0 in the source)
handleCommentLine(line, entries, lineIndex, allLines) ==
  IF Len(entries) = 0 \/ lineIndex = 1 THEN entries
  ELSE LET prevLine == Trim(allLines[lineIndex - 1])
           comment  == Trim(Substring1(line))
       IN  IF prevLine # <<>> /\ ~StartsWithHash(prevLine) /\ comment # <<>>
           THEN [entries EXCEPT ![Len(entries)].comment = comment]
           ELSE entries

RECURSIVE parseLoop_CountsEntries(_, _, _, _)
\* parse whose entryId advances only when an entry is produced
parseLoop_CountsEntries(lines, i, entries, entryId) ==
  IF i > Len(lines) THEN entries
  ELSE LET line == Trim(lines[i])
       IN  IF line = <<>> THEN parseLoop_CountsEntries(lines, i + 1, entries, entryId)
           ELSE IF StartsWithHash(line)
           THEN LET disabledEntry == parseEntryLine(Trim(Substring1(line)), entryId)
                IN  IF disabledEntry # Null
                    THEN parseLoop_CountsEntries(lines, i + 1,
                           Append(entries, [disabledEntry EXCEPT !.enabled = FALSE]),
                           entryId + 1)
                    ELSE parseLoop_CountsEntries(lines, i + 1,
                           handleCommentLine(line, entries, i, lines), entryId)
           ELSE LET entry == parseEntryLine(line, entryId)
                IN  IF entry # Null
                    THEN parseLoop_CountsEntries(lines, i + 1, Append(entries, entry),
                                                 entryId + 1)
                    ELSE parseLoop_CountsEntries(lines, i + 1, entries, entryId)

RECURSIVE parseLoop(_, _, _, _)
\* the for loop of parse: entryId is incremented at every parseEntryLine call
parseLoop(lines, i, entries, entryId) ==
  IF i > Len(lines) THEN entries
  ELSE LET line == Trim(lines[i])
       IN  IF line = <<>> THEN parseLoop(lines, i + 1, entries, entryId)
           ELSE IF StartsWithHash(line)
           THEN LET commentContent == Trim(Substring1(line))
                    disabledEntry  == parseEntryLine(commentContent, entryId)
                IN  IF disabledEntry # Null
                    THEN parseLoop(lines, i + 1,
                                   Append(entries, [disabledEntry EXCEPT !.enabled = FALSE]),
                                   entryId + 1)
                    ELSE parseLoop(lines, i + 1,
                                   handleCommentLine(line, entries, i, lines),
                                   entryId + 1)
           ELSE LET entry == parseEntryLine(line, entryId)
                IN  parseLoop(lines, i + 1,
                              IF entry # Null THEN Append(entries, entry) ELSE entries,
                              entryId + 1)

\* HostsParser.parse(content)
parse(content) == parseLoop(Split(content, "\n"), 1, <<>>, 0)

\* if (entry.comment): neither undefined nor the empty string
Truthy(s) == s # Undefined /\ s # <<>>

\* formatEntry that writes the comment of a disabled entry on the entry's line
formatEntry_InlineDisabledComment(entry) ==
  LET hostnameLine == entry.ip \o <<" ">> \o Join(entry.hostnames, <<" ">>)
      line == IF entry.enabled THEN hostnameLine ELSE <<"#", " ">> \o hostnameLine
  IN  IF Truthy(entry.comment)
      THEN <<line \o <<" ", "#", " ">> \o entry.comment>>
      ELSE <<line>>

formatEntry(entry) ==
  LET hostnameLine == entry.ip \o <<" ">> \o Join(entry.hostnames, <<" ">>)
  IN  IF entry.enabled
      THEN IF Truthy(entry.comment)
           THEN <<hostnameLine \o <<" ", "#", " ">> \o entry.comment>>
           ELSE <<hostnameLine>>
      ELSE <<<<"#", " ">> \o hostnameLine>>
           \o (IF Truthy(entry.comment) THEN <<<<"#", " ">> \o entry.comment>> ELSE <<>>)

BannerLine ==
  <<"#", " ", "H", "o", "s", "t", "s", " ", "f", "i", "l", "e", " ", "m", "a", "n",
    "a", "g", "e", "d", " ", "b", "y", " ", "i", "H", "o", "s", "t", "s">>

GeneratedAt ==
  <<"#", " ", "G", "e", "n", "e", "r", "a", "t", "e", "d", " ", "a", "t", " ">>

RECURSIVE formatAll(_)
formatAll(entries) ==
  IF entries = <<>> THEN <<>> ELSE formatEntry(Head(entries)) \o formatAll(Tail(entries))

\* the lines stringify pushes; now is new Date().toISOString()
stringifyLines(entries, now) ==
  <<BannerLine, GeneratedAt \o now, <<>>>> \o formatAll(entries)

\* HostsParser.stringify(entries): lines.join("\n") + "\n"
stringify(entries, now) == Join(stringifyLines(entries, now), <<"\n">>) \o <<"\n">>

MaxHostnameLength == 253
MaxLabelLength == 63

\* one dot-separated label: [a-z0-9]([a-z0-9-]{0,61}[a-z0-9])? , case-insensitive
isValidLabel(l) ==
  /\ Len(l) \in 1..MaxLabelLength
  /\ l[1] \in Digits \cup Letters
  /\ l[Len(l)] \in Digits \cup Letters
  /\ \A n \in 1..Len(l) : l[n] \in Digits \cup Letters \cup {"-"}

isValidHostname(hostname) ==
  /\ Len(hostname) <= MaxHostnameLength
  /\ LET labels == Split(hostname, ".")
     IN  \A k \in 1..Len(labels) : isValidLabel(labels[k])

\* the errors array of validateEntry, as tagged messages
validateEntry(entry) ==
  (IF ~isValidIP(entry.ip) THEN <<<<"Invalid IP address", entry.ip>>>> ELSE <<>>)
  \o (IF Len(entry.hostnames) = 0 THEN <<<<"At least one hostname is required">>>> ELSE <<>>)
  \o [k \in 1..Len(SelectSeq(entry.hostnames, LAMBDA h : ~isValidHostname(h))) |->
        <<"Invalid hostname", SelectSeq(entry.hostnames, LAMBDA h : ~isValidHostname(h))[k]>>]

(***************************************************************************)
(* State                                                                   *)
(***************************************************************************)

VARIABLES
  cpc,        \* codec pipeline: "off", "text", "entries", "parsed", "written", "reparsed"
  origin,     \* what the pipeline started from: "text" or "entries"
  via,        \* what produced outText: "none", "stringify" or "formatEntry";
              \* for an address check its result, "valid" or "invalid"
  srcText,    \* the text handed to the first parse
  ents0,      \* the entries handed to stringify (given, or parse(srcText))
  outText,    \* the text stringify / formatEntry produced
  ents1       \* parse(outText)

codecVars == <<cpc, origin, via, srcText, ents0, outText, ents1>>

VARIABLES
  hostsFile,  \* the text of /etc/hosts
  backupFiles,\* the backup files written so far, oldest first: [id, entries]
  wpc,        \* writeHosts: "idle", "dialog", "backup", "write", "done", "failed"
  wEntries,   \* the entries argument of the running / last writeHosts call
  wError,     \* the error the last call was rejected with, NoError when none
  wBackup,    \* createBackupIfNeeded in this call: "none", "created", "skipped", "failed"
  prompts,    \* permission dialogs shown so far
  calls       \* writeHosts calls begun so far

writeVars == <<hostsFile, backupFiles, wpc, wEntries, wError, wBackup, prompts, calls>>

VARIABLES
  entries,          \* useHostsStore: the working list
  originalEntries,  \* useHostsStore: the list as of the last load or markAsSaved
  filteredEntries,  \* useHostsStore: the projection applyFilters computed
  searchQuery,      \* useHostsStore: the search text
  filterStatus,     \* useHostsStore: "all", "enabled", "disabled", "unsaved"
  sortBy,           \* useHostsStore: "ip", "hostname", "group", "none"
  sortOrder,        \* useHostsStore: "asc", "desc"
  savePc,           \* Header.writeHosts: "idle", or "awaiting" the write collaborator
  validEntries,     \* Header.writeHosts: the list sent to the write collaborator
  toast,            \* the last toast the save action showed: "none", "warning", ...
  persisted,        \* the entry list last loaded, or last written by a successful save
  loaded,           \* the load on mount has been delivered
  edits,            \* user edits made so far
  nextId            \* ids handed out by addEntry so far

storeVars == <<entries, originalEntries, filteredEntries, searchQuery, filterStatus,
               sortBy, sortOrder, savePc, validEntries, toast, persisted, loaded,
               edits, nextId>>

VARIABLES
  fileMtime,      \* the modification time of /etc/hosts (stats.mtimeMs)
  lastModified,   \* watchHosts: the modification time the last poll acted on
  pollPc,         \* watchHosts: "idle", or "reading" while a poll awaits readHosts
  channel,        \* the "hosts:changed" messages sent and not yet received
  receivedMtime,  \* the lastModified of the last document the renderer received
  win,            \* the main window: "open" or "closed"
  unloadReq,      \* the close or reload whose beforeunload is being dispatched
  hpc,            \* per listener, where its showUnsavedChangesDialog call stands
  hres,           \* per listener, what its last showUnsavedChangesDialog call returned
  hwait,          \* per listener, the dialog promise it found pending and awaits
  pendingDialog,  \* the listener whose dialog promise pendingDialog holds, or "null"
  dres,           \* per listener, the state of the dialog promise it created
  clearTimers,    \* the setTimeout callbacks that will set pendingDialog to null
  shown,          \* dialogs shown since the last request that found no call running
  requests        \* close and reload requests made so far

watchVars == <<fileMtime, lastModified, pollPc, channel, receivedMtime>>

closeVars == <<win, unloadReq, hpc, hres, hwait, pendingDialog, dres, clearTimers, shown,
               requests>>

mainVars == <<watchVars, closeVars>>

nonCodecVars == <<writeVars, storeVars, mainVars>>

nonWriteVars == <<codecVars, storeVars, mainVars>>

vars == <<codecVars, writeVars, storeVars, mainVars>>

(***************************************************************************)
(* Inputs of the codec pipeline                                            *)
(***************************************************************************)

MaxLines == 2
MaxList == 2

NL == <<"\n">>

IP_10_0_0_5 == <<"1", "0", ".", "0", ".", "0", ".", "5">>
IP_Loopback6 == <<":", ":", "1">>
Host_a_test == <<"a", ".", "t", "e", "s", "t">>
Host_b_test == <<"b", ".", "t", "e", "s", "t">>
Text_dev == <<"d", "e", "v">>
Text_staging_box == <<"s", "t", "a", "g", "i", "n", "g", " ", "b", "o", "x">>

Addresses == {IP_10_0_0_5, IP_Loopback6}

HostLists == {<<Host_a_test>>, <<Host_a_test, Host_b_test>>}

Comments == {Text_dev, Text_staging_box}

\* the optional trailing comment of an entry line: SP+ "#" SP* text
CommentSuffixes ==
  {<<>>}
    \cup { <<" ", "#", " ">> \o c : c \in Comments }
    \cup { <<"\t", "#">> \o c : c \in Comments }

\* well-formed entry lines: address SP+ hostname (SP+ hostname)* (SP+ "#" SP* text)?
EntryLines ==
  { ip \o <<" ">> \o Join(hs, <<" ">>) \o sfx :
      ip \in Addresses, hs \in HostLists, sfx \in CommentSuffixes }

BlankLines == {<<>>, <<" ">>}

SeqsUpTo(S, n) == UNION { [1..k -> S] : k \in 0..n }

\* texts made of well-formed entry lines and blank lines only
WellFormedTexts ==
  { Join(ls, NL) \o NL : ls \in SeqsUpTo(EntryLines \cup BlankLines, MaxLines) }

\* the values new Date().toISOString() takes
Timestamps ==
  {<<"2", "0", "2", "6", "-", "1", "1", "-", "0", "2", "T", "2", "0", ":", "1", "8",
     ":", "0", "0", ".", "0", "0", "0", "Z">>}

EntryInputs ==
  [ip : Addresses, hostnames : HostLists, enabled : BOOLEAN,
   comment : {Undefined} \cup Comments, group : {Undefined}]

\* entry lists as the store holds them: ids entry-0, entry-1, ...
EntryListInputs ==
  { [k \in 1..Len(l) |->
       [id |-> <<"entry", k - 1>>, ip |-> l[k].ip, hostnames |-> l[k].hostnames,
        enabled |-> l[k].enabled, comment |-> l[k].comment, group |-> l[k].group]] :
      l \in SeqsUpTo(EntryInputs, MaxList) }

(***************************************************************************)
(* The codec pipeline: parse, stringify / formatEntry, parse again         *)
(***************************************************************************)

\* no error: the call has not been rejected
NoError == [name |-> "none", message |-> "", details |-> <<>>]

\* the two listeners of the main window that call showUnsavedChangesDialog:
\* the "close" listener and the "will-prevent-unload" listener
Listeners == {"close", "unload"}

\* the main process as started: the watcher has not polled, the window is
\* open, no close or reload has been requested
MainOff ==
  /\ fileMtime = 1
  /\ lastModified = 0
  /\ pollPc = "idle"
  /\ channel = <<>>
  /\ receivedMtime = 0
  /\ win = "open"
  /\ unloadReq = "none"
  /\ hpc = [h \in Listeners |-> "idle"]
  /\ hres = [h \in Listeners |-> "none"]
  /\ hwait = [h \in Listeners |-> "null"]
  /\ pendingDialog = "null"
  /\ dres = [h \in Listeners |-> "none"]
  /\ clearTimers = 0
  /\ shown = 0
  /\ requests = 0

\* the renderer's store as constructed, nothing loaded
StoreOff ==
  /\ entries = <<>>
  /\ originalEntries = <<>>
  /\ filteredEntries = <<>>
  /\ searchQuery = <<>>
  /\ filterStatus = "all"
  /\ sortBy = "none"
  /\ sortOrder = "asc"
  /\ savePc = "idle"
  /\ validEntries = <<>>
  /\ toast = "none"
  /\ persisted = <<>>
  /\ loaded = FALSE
  /\ edits = 0
  /\ nextId = 0

\* the write path at rest, nothing written yet
WriteOff ==
  /\ hostsFile = <<>>
  /\ backupFiles = <<>>
  /\ wpc = "idle"
  /\ wEntries = <<>>
  /\ wError = NoError
  /\ wBackup = "none"
  /\ prompts = 0
  /\ calls = 0

CodecInit ==
  /\ WriteOff
  /\ StoreOff
  /\ MainOff
  /\ via = "none"
  /\ outText = <<>>
  /\ ents1 = <<>>
  /\ \/ /\ cpc = "text"
        /\ origin = "text"
        /\ srcText \in WellFormedTexts
        /\ ents0 = <<>>
     \/ /\ cpc = "entries"
        /\ origin = "entries"
        /\ srcText = <<>>
        /\ ents0 \in EntryListInputs

\* entries = HostsParser.parse(content)
ParseText ==
  /\ cpc = "text"
  /\ ents0' = parse(srcText)
  /\ cpc' = "parsed"
  /\ UNCHANGED <<origin, via, srcText, outText, ents1, nonCodecVars>>

\* content = HostsParser.stringify(entries)
Stringify ==
  /\ cpc \in {"parsed", "entries"}
  /\ \E now \in Timestamps : outText' = stringify(ents0, now)
  /\ via' = "stringify"
  /\ cpc' = "written"
  /\ UNCHANGED <<origin, srcText, ents0, ents1, nonCodecVars>>

\* the lines formatEntry emits for one entry, newline-joined
FormatOne ==
  /\ cpc = "entries"
  /\ Len(ents0) = 1
  /\ outText' = Join(formatEntry(ents0[1]), NL)
  /\ via' = "formatEntry"
  /\ cpc' = "written"
  /\ UNCHANGED <<origin, srcText, ents0, ents1, nonCodecVars>>

\* HostsParser.parse of what was written
Reparse ==
  /\ cpc = "written"
  /\ ents1' = parse(outText)
  /\ cpc' = "reparsed"
  /\ UNCHANGED <<origin, via, srcText, ents0, outText, nonCodecVars>>

CodecNext == ParseText \/ Stringify \/ FormatOne \/ Reparse

SpecCodec == CodecInit /\ [][CodecNext]_vars

(***************************************************************************)
(* Properties of the codec                                                 *)
(***************************************************************************)

Range(seq) == { seq[k] : k \in 1..Len(seq) }

\* structural equality of two entries: ip, hostnames as a set, enabled, comment
StructEq(a, b) ==
  /\ a.ip = b.ip
  /\ Range(a.hostnames) = Range(b.hostnames)
  /\ a.enabled = b.enabled
  /\ a.comment = b.comment

\* C1: for a text made only of well-formed entry lines and blank lines,
\* parse(stringify(parse(text))) has the length of parse(text) and its entries
\* equal those of parse(text) pairwise in ip, hostname set, enabled and comment.
C1_TextRoundTrip ==
  (cpc = "reparsed" /\ origin = "text") =>
    /\ Len(ents1) = Len(ents0)
    /\ \A k \in 1..Len(ents0) : StructEq(ents1[k], ents0[k])

\* C2: for an enabled entry with a valid ip, at least one hostname and a
\* non-empty comment, parse(stringify([entry])) is exactly one entry with the
\* same ip, the same hostname set, enabled = true and the same comment.
C2_EnabledEntryRoundTrip ==
  ( /\ cpc = "reparsed"
    /\ origin = "entries"
    /\ via = "stringify"
    /\ Len(ents0) = 1
    /\ ents0[1].enabled
    /\ Truthy(ents0[1].comment) ) =>
    /\ Len(ents1) = 1
    /\ ents1[1].ip = ents0[1].ip
    /\ Range(ents1[1].hostnames) = Range(ents0[1].hostnames)
    /\ ents1[1].enabled
    /\ ents1[1].comment = ents0[1].comment

\* C3: for a disabled entry with a valid ip, at least one hostname and a
\* non-empty comment, the entry is written as the two comment lines
\* "# <ip> <hostnames>" and "# <comment>", and parsing those two lines gives one
\* entry with enabled = false and the original comment.
C3_DisabledEntryRoundTrip ==
  ( /\ cpc = "reparsed"
    /\ origin = "entries"
    /\ via = "formatEntry"
    /\ ~ents0[1].enabled
    /\ Truthy(ents0[1].comment) ) =>
    /\ Split(outText, "\n") =
         << <<"#", " ">> \o ents0[1].ip \o <<" ">> \o Join(ents0[1].hostnames, <<" ">>),
            <<"#", " ">> \o ents0[1].comment >>
    /\ Len(ents1) = 1
    /\ ~ents1[1].enabled
    /\ ents1[1].comment = ents0[1].comment

(***************************************************************************)
(* HostsFileManager.writeHosts, called by the hosts:write and              *)
(* backup:restore handlers of the main process                             *)
(***************************************************************************)

MaxCalls == 2

IP_256 == <<"2", "5", "6", ".", "0", ".", "0", ".", "1">>
IP_NotAnIp == <<"n", "o", "t", "-", "a", "n", "-", "i", "p">>
IP_127_0_0_1 == <<"1", "2", "7", ".", "0", ".", "0", ".", "1">>
Host_localhost == <<"l", "o", "c", "a", "l", "h", "o", "s", "t">>
Host_bad == <<"b", "a", "d", "_", "h", "o", "s", "t">>

Entry(n, ip, hostnames, enabled, comment) ==
  [id |-> <<"entry", n>>, ip |-> ip, hostnames |-> hostnames, enabled |-> enabled,
   comment |-> comment, group |-> Undefined]

\* the entry lists the renderer sends with hosts:write
WriteListInputs ==
  { <<>>,
    <<Entry(0, IP_10_0_0_5, <<Host_a_test>>, TRUE, Undefined)>>,
    <<Entry(0, IP_Loopback6, <<Host_localhost>>, FALSE, Text_dev),
      Entry(1, IP_10_0_0_5, <<Host_a_test, Host_b_test>>, TRUE, Undefined)>>,
    <<Entry(0, IP_256, <<Host_a_test>>, TRUE, Undefined)>>,
    <<Entry(0, IP_10_0_0_5, <<Host_a_test>>, TRUE, Undefined),
      Entry(1, IP_10_0_0_5, <<>>, TRUE, Undefined)>>,
    <<Entry(0, IP_NotAnIp, <<Host_bad, Host_a_test, <<>>>>, TRUE, Undefined),
      Entry(1, IP_10_0_0_5, <<Host_a_test>>, TRUE, Undefined),
      Entry(2, IP_127_0_0_1, <<<<>>>>, TRUE, Undefined)>> }

\* what /etc/hosts holds before the application first writes it
InitialHostsFiles ==
  { IP_127_0_0_1 \o <<" ">> \o Host_localhost \o NL,
    <<"#", " ", "e", "m", "p", "t", "y">> \o NL }

\* the messages execWithAdmin rejects with
AdminErrors ==
  { "Permission denied: User canceled the password prompt",
    "Authentication failed: Please check your password and try again",
    "Command failed" }

Err(name, message, details) == [name |-> name, message |-> message, details |-> details]

\* the indices of the entries validateEntry rejects
Offending(ents) == { k \in 1..Len(ents) : validateEntry(ents[k]) # <<>> }

\* validateEntriesForWrite without the check for an empty list
validateEntriesForWrite_AcceptsEmpty(ents) ==
  LET validationErrors ==
        [n \in 1..Cardinality(Offending(ents)) |->
           <<Nth(Offending(ents), n), validateEntry(ents[Nth(Offending(ents), n)])>>]
  IN  IF Len(validationErrors) > 0
      THEN Err("Error", "Validation failed", validationErrors)
      ELSE NoError

\* validateEntriesForWrite stopping at the first offending entry
validateEntriesForWrite_FirstOnly(ents) ==
  IF Len(ents) = 0 THEN Err("Error", "Cannot save empty hosts file", <<>>)
  ELSE IF Offending(ents) = {} THEN NoError
  ELSE Err("Error", "Validation failed",
           <<<<Min(Offending(ents)), validateEntry(ents[Min(Offending(ents))])>>>>)

\* validateEntriesForWrite(entries): the error it throws, NoError when it returns.
\* details holds one item per offending entry, in list order: <<i + 1, errors>>
validateEntriesForWrite(ents) ==
  IF Len(ents) = 0 THEN Err("Error", "Cannot save empty hosts file", <<>>)
  ELSE LET validationErrors ==
             [n \in 1..Cardinality(Offending(ents)) |->
                <<Nth(Offending(ents), n), validateEntry(ents[Nth(Offending(ents), n)])>>]
       IN  IF Len(validationErrors) > 0
           THEN Err("Error", "Validation failed", validationErrors)
           ELSE NoError

\* writeHosts(entries, window) up to its first suspension: validation, then the
\* permission dialog when there is a window, else straight on to the backup
writeHosts(ents, window) ==
  /\ calls' = calls + 1
  /\ wEntries' = ents
  /\ wBackup' = "none"
  /\ LET error == validateEntriesForWrite(ents)
     IN  IF error # NoError
         THEN /\ wpc' = "failed"
              /\ wError' = error
              /\ prompts' = prompts
         ELSE /\ wError' = NoError
              /\ IF window
                 THEN wpc' = "dialog" /\ prompts' = prompts + 1
                 ELSE wpc' = "backup" /\ prompts' = prompts
  /\ UNCHANGED <<hostsFile, backupFiles>>

\* ipcMain.handle("hosts:write"): an empty list is refused by the handler itself
IpcHostsWrite ==
  /\ wpc \in {"idle", "done", "failed"}
  /\ calls < MaxCalls
  /\ \E ents \in WriteListInputs, window \in BOOLEAN :
       IF Len(ents) = 0
       THEN /\ wpc' = "failed"
            /\ wError' = Err("response", "Cannot save empty hosts file", <<>>)
            /\ wEntries' = ents
            /\ wBackup' = "none"
            /\ calls' = calls + 1
            /\ UNCHANGED <<hostsFile, backupFiles, prompts>>
       ELSE writeHosts(ents, window)
  /\ UNCHANGED nonWriteVars

\* ipcMain.handle("backup:create"): the entries of the hosts file as it is
\* are stored as a backup, also when there are none
IpcBackupCreate ==
  /\ wpc \in {"idle", "done", "failed"}
  /\ Len(backupFiles) < MaxCalls
  /\ backupFiles' = Append(backupFiles,
                           [id |-> Len(backupFiles) + 1, entries |-> parse(hostsFile)])
  /\ UNCHANGED <<hostsFile, wpc, wEntries, wError, wBackup, prompts, calls>>
  /\ UNCHANGED nonWriteVars

\* ipcMain.handle("backup:restore"): the entries of a stored backup are written
IpcBackupRestore ==
  /\ wpc \in {"idle", "done", "failed"}
  /\ calls < MaxCalls
  /\ \E b \in 1..Len(backupFiles), window \in BOOLEAN :
       writeHosts(backupFiles[b].entries, window)
  /\ UNCHANGED nonWriteVars

\* requestPermission: the user presses Continue
DialogContinue ==
  /\ wpc = "dialog"
  /\ wpc' = "backup"
  /\ UNCHANGED <<hostsFile, backupFiles, wEntries, wError, wBackup, prompts, calls>>
  /\ UNCHANGED nonWriteVars

\* a writeHosts that has made its backup before it asks: the user presses Cancel
DialogCancel_BackupFirst ==
  /\ wpc = "dialog"
  /\ wpc' = "failed"
  /\ wError' = Err("Error", "Permission denied: User canceled", <<>>)
  /\ backupFiles' = Append(backupFiles,
                           [id |-> Len(backupFiles) + 1, entries |-> parse(hostsFile)])
  /\ wBackup' = "created"
  /\ UNCHANGED <<hostsFile, wEntries, prompts, calls>>
  /\ UNCHANGED nonWriteVars

\* requestPermission: the user presses Cancel (response 0)
DialogCancel ==
  /\ wpc = "dialog"
  /\ wpc' = "failed"
  /\ wError' = Err("Error", "Permission denied: User canceled", <<>>)
  /\ UNCHANGED <<hostsFile, backupFiles, wEntries, wBackup, prompts, calls>>
  /\ UNCHANGED nonWriteVars

\* createBackupIfNeeded: readHosts and createBackup succeed
BackupCreate ==
  /\ wpc = "backup"
  /\ LET currentData == parse(hostsFile)
     IN  IF Len(currentData) > 0
         THEN /\ backupFiles' = Append(backupFiles,
                                       [id |-> Len(backupFiles) + 1, entries |-> currentData])
              /\ wBackup' = "created"
         ELSE /\ backupFiles' = backupFiles
              /\ wBackup' = "skipped"
  /\ wpc' = "write"
  /\ UNCHANGED <<hostsFile, wEntries, wError, prompts, calls>>
  /\ UNCHANGED nonWriteVars

\* createBackupIfNeeded: readHosts or createBackup throws; the catch logs it and
\* the call goes on
BackupFail ==
  /\ wpc = "backup"
  /\ wBackup' = "failed"
  /\ wpc' = "write"
  /\ UNCHANGED <<hostsFile, backupFiles, wEntries, wError, prompts, calls>>
  /\ UNCHANGED nonWriteVars

\* stringify, then writeContentToHostsFile: the privileged copy succeeds
WriteContent ==
  /\ wpc = "write"
  /\ \E now \in Timestamps : hostsFile' = stringify(wEntries, now)
  /\ wpc' = "done"
  /\ UNCHANGED <<backupFiles, wEntries, wError, wBackup, prompts, calls>>
  /\ UNCHANGED nonWriteVars

\* writeContentToHostsFile: execWithAdmin rejects
WriteContentFail ==
  /\ wpc = "write"
  /\ \E message \in AdminErrors : wError' = Err("Error", message, <<>>)
  /\ wpc' = "failed"
  /\ UNCHANGED <<hostsFile, backupFiles, wEntries, wBackup, prompts, calls>>
  /\ UNCHANGED nonWriteVars

CodecOff ==
  /\ cpc = "off"
  /\ origin = "none"
  /\ via = "none"
  /\ srcText = <<>>
  /\ ents0 = <<>>
  /\ outText = <<>>
  /\ ents1 = <<>>

WriteInit ==
  /\ CodecOff
  /\ StoreOff
  /\ MainOff
  /\ hostsFile \in InitialHostsFiles
  /\ backupFiles = <<>>
  /\ wpc = "idle"
  /\ wEntries = <<>>
  /\ wError = NoError
  /\ wBackup = "none"
  /\ prompts = 0
  /\ calls = 0

WriteNext ==
  \/ IpcHostsWrite
  \/ IpcBackupCreate
  \/ IpcBackupRestore
  \/ DialogContinue
  \/ DialogCancel
  \/ BackupCreate
  \/ BackupFail
  \/ WriteContent
  \/ WriteContentFail

SpecWrite == WriteInit /\ [][WriteNext]_vars

(***************************************************************************)
(* Properties of the write path                                            *)
(***************************************************************************)

\* C4: the hosts file is never overwritten without a backup: every write of
\* writeHosts is preceded, within the same call, by the successful creation of
\* a backup holding the entries the file contained before the write.
C4_NeverWriteWithoutBackup ==
  [][ (wpc = "write" /\ wpc' = "done") =>
        /\ wBackup = "created"
        /\ Len(backupFiles) > 0
        /\ backupFiles[Len(backupFiles)].entries = parse(hostsFile) ]_vars

\* the reasons validateEntry must give for an entry
HasBadIp(entry) == ~isValidIP(entry.ip)
HasNoHostname(entry) == Len(entry.hostnames) = 0
BadHostnames(entry) == { h \in Range(entry.hostnames) : ~isValidHostname(h) }
IsInvalidEntry(entry) ==
  HasBadIp(entry) \/ HasNoHostname(entry) \/ BadHostnames(entry) # {}

\* C5: writeHosts validates every entry before any side effect: when an entry
\* of the list is invalid the call fails at once with a single error that names
\* every offending entry (and no other) with each of its reasons, and it shows
\* no permission prompt, creates no backup and leaves the hosts file alone.
C5_InvalidEntriesRejected ==
  [][ ( /\ calls' = calls + 1
        /\ \E k \in 1..Len(wEntries') : IsInvalidEntry(wEntries'[k]) ) =>
        /\ wpc' = "failed"
        /\ wError'.message = "Validation failed"
        /\ { item[1] : item \in Range(wError'.details) } =
             { k \in 1..Len(wEntries') : IsInvalidEntry(wEntries'[k]) }
        /\ \A item \in Range(wError'.details) :
             LET entry == wEntries'[item[1]]
                 reasons == Range(item[2])
             IN  /\ (<<"Invalid IP address", entry.ip>> \in reasons) <=> HasBadIp(entry)
                 /\ (<<"At least one hostname is required">> \in reasons)
                      <=> HasNoHostname(entry)
                 /\ \A h \in Range(entry.hostnames) :
                      (<<"Invalid hostname", h>> \in reasons) <=> (h \in BadHostnames(entry))
        /\ Len(wError'.details) = Cardinality({ item[1] : item \in Range(wError'.details) })
        /\ prompts' = prompts
        /\ backupFiles' = backupFiles
        /\ wBackup' = "none"
        /\ hostsFile' = hostsFile ]_vars

\* a call was rejected for two offending entries, one of them for two reasons
C5_Witness ==
  /\ wpc = "failed"
  /\ wError.message = "Validation failed"
  /\ Len(wError.details) = 2
  /\ \E item \in Range(wError.details) : Len(item[2]) >= 2
  /\ Len(wEntries) = 3

(***************************************************************************)
(* useHostsStore: the change-tracking store of the renderer                *)
(***************************************************************************)

\* the model's characters in UTF-16 code unit order (Array.prototype.sort())
CodeUnitOrder ==
  <<"\t", "\n", "\r", " ", "#", "-", ".",
    "0", "1", "2", "3", "4", "5", "6", "7", "8", "9", ":",
    "A", "B", "C", "D", "E", "F", "G", "H", "I", "J", "K", "L", "M",
    "N", "O", "P", "Q", "R", "S", "T", "U", "V", "W", "X", "Y", "Z", "_",
    "a", "b", "c", "d", "e", "f", "g", "h", "i", "j", "k", "l", "m",
    "n", "o", "p", "q", "r", "s", "t", "u", "v", "w", "x", "y", "z">>

\* the model's characters in collation order (String.prototype.localeCompare):
\* white space, punctuation, digits, letters with lower case before upper case
CollationOrder ==
  <<"\t", "\n", "\r", " ", "_", "-", ":", ".", "#",
    "0", "1", "2", "3", "4", "5", "6", "7", "8", "9",
    "a", "A", "b", "B", "c", "C", "d", "D", "e", "E", "f", "F", "g", "G",
    "h", "H", "i", "I", "j", "J", "k", "K", "l", "L", "m", "M", "n", "N",
    "o", "O", "p", "P", "q", "Q", "r", "R", "s", "S", "t", "T", "u", "U",
    "v", "V", "w", "W", "x", "X", "y", "Y", "z", "Z">>

\* the position of every character in each order
CodeUnitRank ==
  [c \in Range(CodeUnitOrder) |-> CHOOSE k \in 1..Len(CodeUnitOrder) : CodeUnitOrder[k] = c]
CollationRank ==
  [c \in Range(CollationOrder) |-> CHOOSE k \in 1..Len(CollationOrder) : CollationOrder[k] = c]

RankIn(order, c) == IF order = CodeUnitOrder THEN CodeUnitRank[c] ELSE CollationRank[c]

RECURSIVE compareFrom(_, _, _, _)
\* -1, 0 or 1: a against b from index i on, character by character
compareFrom(a, b, i, order) ==
  IF i > Len(a) /\ i > Len(b) THEN 0
  ELSE IF i > Len(a) THEN -1
  ELSE IF i > Len(b) THEN 1
  ELSE IF RankIn(order, a[i]) < RankIn(order, b[i]) THEN -1
  ELSE IF RankIn(order, a[i]) > RankIn(order, b[i]) THEN 1
  ELSE compareFrom(a, b, i + 1, order)

\* String.prototype.toLowerCase, one character
LowerChar(c) ==
  IF c \in Letters /\ RankIn(CodeUnitOrder, c) < RankIn(CodeUnitOrder, "_")
  THEN CodeUnitOrder[RankIn(CodeUnitOrder, c) + 27]
  ELSE c

toLowerCase(str) == [k \in 1..Len(str) |-> LowerChar(str[k])]

\* a.localeCompare(b): letters compare without regard to case first; strings
\* equal up to case are ordered by their first case difference, lower case first
localeCompare(a, b) ==
  LET primary == compareFrom(toLowerCase(a), toLowerCase(b), 1, CollationOrder)
  IN  IF primary # 0 THEN primary ELSE compareFrom(a, b, 1, CollationOrder)

\* the comparison a sort makes: localeCompare when given, code units by default
compareStrings(a, b, order) ==
  IF order = CollationOrder THEN localeCompare(a, b) ELSE compareFrom(a, b, 1, order)

RECURSIVE sortStrings(_, _)
\* [...strings].sort(compare): a stable sort by the given character order
sortStrings(strings, order) ==
  IF Len(strings) <= 1 THEN strings
  ELSE LET rest == sortStrings(SubSeq(strings, 1, Len(strings) - 1), order)
           x    == strings[Len(strings)]
           p    == Cardinality({ j \in 1..Len(rest) : compareStrings(rest[j], x, order) <= 0 })
       IN  SubSeq(rest, 1, p) \o <<x>> \o SubSeq(rest, p + 1, Len(rest))

\* originalEntries.find(e => e.id === id): Null when there is none
findById(list, id) ==
  LET found == { k \in 1..Len(list) : list[k].id = id }
  IN  IF found = {} THEN Null ELSE list[Min(found)]

\* the comparison both copies of isEntryUnsaved make once the original is found
differsFrom(entry, originalEntry, order) ==
  \/ entry.ip # originalEntry.ip
  \/ sortStrings(entry.hostnames, order) # sortStrings(originalEntry.hostnames, order)
  \/ entry.enabled # originalEntry.enabled
  \/ entry.comment # originalEntry.comment
  \/ entry.group # originalEntry.group


\* isEntryUnsaved without the sort: hostnames compared in the order they are held
isEntryUnsaved_Unsorted(entry, orig) ==
  LET originalEntry == findById(orig, entry.id)
  IN  IF originalEntry = Null THEN TRUE
      ELSE \/ entry.ip # originalEntry.ip
           \/ entry.hostnames # originalEntry.hostnames
           \/ entry.enabled # originalEntry.enabled
           \/ entry.comment # originalEntry.comment
           \/ entry.group # originalEntry.group

\* useHostsStore.isEntryUnsaved(entry), against the given originalEntries
isEntryUnsaved(entry, orig) ==
  LET originalEntry == findById(orig, entry.id)
  IN  IF originalEntry = Null THEN TRUE
      ELSE differsFrom(entry, originalEntry, CollationOrder)

\* the copy of isEntryUnsaved inside checkUnsavedChanges (main process)
isEntryUnsavedMain(entry, orig) ==
  LET original == findById(orig, entry.id)
  IN  IF original = Null THEN TRUE
      ELSE differsFrom(entry, original, CodeUnitOrder)

\* String.prototype.includes
includes(str, sub) ==
  \E k \in 0..(Len(str) - Len(sub)) : SubSeq(str, k + 1, k + Len(sub)) = sub

\* the search predicate of applyFilters; query is already lower case
matchesQuery(entry, query) ==
  \/ includes(toLowerCase(entry.ip), query)
  \/ \E k \in 1..Len(entry.hostnames) : includes(toLowerCase(entry.hostnames[k]), query)
  \/ entry.comment # Undefined /\ includes(toLowerCase(entry.comment), query)
  \/ entry.group # Undefined /\ includes(toLowerCase(entry.group), query)

\* the key applyFilters compares for a sort field
sortKey(entry, by) ==
  CASE by = "ip" -> entry.ip
    [] by = "hostname" ->
         IF Len(entry.hostnames) > 0 THEN entry.hostnames[1] ELSE <<>>
    [] by = "group" -> IF Truthy(entry.group) THEN entry.group ELSE <<>>

\* the comparator applyFilters hands to sort
sortCompare(a, b, by, order) ==
  LET comparison == localeCompare(sortKey(a, by), sortKey(b, by))
  IN  IF order = "asc" THEN comparison ELSE -comparison

RECURSIVE sortEntries_Unstable(_, _, _)
\* a sort that places an entry before the entries whose key equals its own
sortEntries_Unstable(list, by, order) ==
  IF Len(list) <= 1 THEN list
  ELSE LET rest == sortEntries_Unstable(SubSeq(list, 1, Len(list) - 1), by, order)
           x    == list[Len(list)]
           p    == Cardinality({ j \in 1..Len(rest) : sortCompare(rest[j], x, by, order) < 0 })
       IN  SubSeq(rest, 1, p) \o <<x>> \o SubSeq(rest, p + 1, Len(rest))

RECURSIVE sortEntries(_, _, _)
\* filtered.sort(comparator): Array.prototype.sort is stable
sortEntries(list, by, order) ==
  IF Len(list) <= 1 THEN list
  ELSE LET rest == sortEntries(SubSeq(list, 1, Len(list) - 1), by, order)
           x    == list[Len(list)]
           p    == Cardinality({ j \in 1..Len(rest) : sortCompare(rest[j], x, by, order) <= 0 })
       IN  SubSeq(rest, 1, p) \o <<x>> \o SubSeq(rest, p + 1, Len(rest))

\* applyFilters that searches for the query as typed, not lower-cased
applyFilters_RawQuery(ents, orig, query, status, by, order) ==
  LET searched == IF query # <<>>
                  THEN SelectSeq(ents, LAMBDA e : matchesQuery(e, query))
                  ELSE ents
      filtered == CASE status = "enabled" -> SelectSeq(searched, LAMBDA e : e.enabled)
                    [] status = "disabled" -> SelectSeq(searched, LAMBDA e : ~e.enabled)
                    [] status = "unsaved" ->
                         SelectSeq(searched, LAMBDA e : isEntryUnsaved(e, orig))
                    [] OTHER -> searched
  IN  IF by # "none" THEN sortEntries(filtered, by, order) ELSE filtered

\* the filteredEntries applyFilters sets
applyFilters(ents, orig, query, status, by, order) ==
  LET searched == IF query # <<>>
                  THEN SelectSeq(ents, LAMBDA e : matchesQuery(e, toLowerCase(query)))
                  ELSE ents
      filtered == CASE status = "enabled" -> SelectSeq(searched, LAMBDA e : e.enabled)
                    [] status = "disabled" -> SelectSeq(searched, LAMBDA e : ~e.enabled)
                    [] status = "unsaved" ->
                         SelectSeq(searched, LAMBDA e : isEntryUnsaved(e, orig))
                    [] OTHER -> searched
  IN  IF by # "none" THEN sortEntries(filtered, by, order) ELSE filtered

(***************************************************************************)
(* The renderer: store actions, the load on mount, the watcher delivery    *)
(* and the Header save action                                              *)
(***************************************************************************)

\* how many user operations (edits and save clicks) a behaviour holds
MaxEdits == 3
\* how many of them may be "Add Entry"
MaxAdds == 1

\* what /etc/hosts holds when the application starts
StoreHostsFiles ==
  { IP_10_0_0_5 \o <<" ">> \o Host_a_test \o <<" ">> \o Host_b_test \o NL
      \o <<"#", " ">> \o IP_Loopback6 \o <<" ">> \o Host_localhost \o NL,
    IP_127_0_0_1 \o <<" ">> \o Host_localhost \o NL }

\* addEntry that gives every new entry the same id
NewEntry_SameId(n) ==
  [id |-> <<"entry", "new", 0>>, ip |-> IP_127_0_0_1, hostnames |-> <<Host_localhost>>,
   enabled |-> TRUE, comment |-> Undefined, group |-> Undefined]

\* the entry the "Add Entry" button creates; n stands for Date.now() and the random suffix
NewEntry(n) ==
  [id |-> <<"entry", "new", n>>, ip |-> IP_127_0_0_1, hostnames |-> <<Host_localhost>>,
   enabled |-> TRUE, comment |-> Undefined, group |-> Undefined]

\* the updates EntryEditor.handleSave sends for an entry the user edited:
\* hostnames reordered, a hostname added, the group set or cleared
EditorUpdates(entry) ==
  LET base == [ip |-> entry.ip, hostnames |-> entry.hostnames,
               comment |-> IF Truthy(entry.comment) THEN entry.comment ELSE Undefined,
               group |-> IF Truthy(entry.group) THEN entry.group ELSE Undefined]
  IN  { [base EXCEPT !.hostnames =
           [k \in 1..Len(entry.hostnames) |-> entry.hostnames[Len(entry.hostnames) + 1 - k]]],
        [base EXCEPT !.hostnames = Append(entry.hostnames, Host_b_test)],
        [base EXCEPT !.group = IF Truthy(entry.group) THEN Undefined ELSE Text_dev] }

\* { ...entry, ...updates }
Merge(entry, updates) ==
  [entry EXCEPT !.ip = updates.ip, !.hostnames = updates.hostnames,
                !.comment = updates.comment, !.group = updates.group]

IdsOf(list) == { list[k].id : k \in 1..Len(list) }

\* get().applyFilters() on the store as it will be after the step
Refiltered(ents, orig) ==
  filteredEntries' = applyFilters(ents, orig, searchQuery, filterStatus, sortBy, sortOrder)


\* a JavaScript value handed where an entry list is expected: an array with
\* its items, or a value that is no array
ArrayValue(list) == [type |-> "array", items |-> list]

NonListValues ==
  { [type |-> "undefined", items |-> <<>>],
    [type |-> "null", items |-> <<>>],
    [type |-> "object", items |-> <<>>] }

\* Array.isArray(value)
isArray(value) == value.type = "array"

\* setEntries that replaces entries only and keeps the old baseline
setEntries_KeepsBaseline(value) == <<value.items, originalEntries>>

\* setEntries(value): the lists after it, as <<entries, originalEntries>>;
\* a value that is no array is taken as the empty list
setEntries(value) ==
  LET entriesArray == IF isArray(value) THEN value.items ELSE <<>>
  IN  <<entriesArray, entriesArray>>


\* markAsSaved that copies all but the last entry
markAsSaved_DropsLast(ents) == SubSeq(ents, 1, Len(ents) - 1)

\* markAsSaved(): the originalEntries after it
markAsSaved(ents) == ents

\* discardChanges that keeps the entries added since the baseline was taken
discardChanges_KeepsAdded(orig) ==
  orig \o SelectSeq(entries, LAMBDA e : \A k \in 1..Len(orig) : orig[k].id # e.id)

\* discardChanges(): the entries after it
discardChanges(orig) == orig

\* updateEntry(id, updates): the entries after it
updateEntry(ents, id, updates) ==
  [k \in 1..Len(ents) |-> IF ents[k].id = id THEN Merge(ents[k], updates) ELSE ents[k]]

\* deleteEntry by index: splice(findIndex(...), 1), which removes the last
\* entry when no entry carries the id
deleteEntry_Splice(ents, id) ==
  LET found == { k \in 1..Len(ents) : ents[k].id = id }
      idx   == IF found = {} THEN Len(ents) ELSE Min(found)
  IN  SubSeq(ents, 1, idx - 1) \o SubSeq(ents, idx + 1, Len(ents))

\* deleteEntry(id): the entries after it
deleteEntry(ents, id) == SelectSeq(ents, LAMBDA e : e.id # id)

\* toggleEntry(id): the entries after it
toggleEntry(ents, id) ==
  [k \in 1..Len(ents) |->
     IF ents[k].id = id THEN [ents[k] EXCEPT !.enabled = ~ents[k].enabled] ELSE ents[k]]

\* the load on mount: readHosts answers and App calls setEntries
LoadHosts ==
  /\ ~loaded
  /\ LET data == parse(hostsFile)
     IN  /\ entries' = setEntries(ArrayValue(data))[1]
         /\ originalEntries' = setEntries(ArrayValue(data))[2]
         /\ persisted' = data
         /\ Refiltered(setEntries(ArrayValue(data))[1], setEntries(ArrayValue(data))[2])
  /\ loaded' = TRUE
  /\ UNCHANGED <<searchQuery, filterStatus, sortBy, sortOrder, savePc, validEntries,
                 toast, edits, nextId, hostsFile>>
  /\ UNCHANGED <<codecVars, mainVars, backupFiles, wpc, wEntries, wError, wBackup, prompts, calls>>

\* the watcher saw a new modification time, re-read the file and sent
\* hosts:changed; the App callback calls setEntries
WatchDeliver ==
  /\ loaded
  /\ LET data == parse(hostsFile)
     IN  /\ entries' = setEntries(ArrayValue(data))[1]
         /\ originalEntries' = setEntries(ArrayValue(data))[2]
         /\ persisted' = data
         /\ Refiltered(setEntries(ArrayValue(data))[1], setEntries(ArrayValue(data))[2])
  /\ UNCHANGED <<searchQuery, filterStatus, sortBy, sortOrder, savePc, validEntries,
                 toast, loaded, edits, nextId, hostsFile>>
  /\ UNCHANGED <<codecVars, mainVars, backupFiles, wpc, wEntries, wError, wBackup, prompts, calls>>

\* everything a user edit leaves alone
EditFrame ==
  /\ edits' = edits + 1
  /\ UNCHANGED <<originalEntries, searchQuery, filterStatus, sortBy, sortOrder, savePc,
                 validEntries, toast, persisted, loaded, hostsFile>>
  /\ UNCHANGED <<codecVars, mainVars, backupFiles, wpc, wEntries, wError, wBackup, prompts, calls>>

\* the "Add Entry" button
AddEntry ==
  /\ edits < MaxEdits
  /\ nextId < MaxAdds
  /\ entries' = Append(entries, NewEntry(nextId))
  /\ nextId' = nextId + 1
  /\ Refiltered(entries', originalEntries)
  /\ EditFrame

\* EntryEditor save: updateEntry(entry.id, updates)
UpdateEntry ==
  /\ edits < MaxEdits
  /\ \E k \in 1..Len(entries) : \E updates \in EditorUpdates(entries[k]) :
       entries' = updateEntry(entries, entries[k].id, updates)
  /\ Refiltered(entries', originalEntries)
  /\ EditFrame
  /\ UNCHANGED nextId

\* the delete button: deleteEntry(entry.id)
DeleteEntry ==
  /\ edits < MaxEdits
  /\ \E id \in IdsOf(entries) : entries' = deleteEntry(entries, id)
  /\ Refiltered(entries', originalEntries)
  /\ EditFrame
  /\ UNCHANGED nextId

\* the toggle switch: toggleEntry(entry.id)
ToggleEntry ==
  /\ edits < MaxEdits
  /\ \E id \in IdsOf(entries) : entries' = toggleEntry(entries, id)
  /\ Refiltered(entries', originalEntries)
  /\ EditFrame
  /\ UNCHANGED nextId

\* discardUnsavedChanges (main process, Discard Changes): discardChanges()
DiscardChanges ==
  /\ entries # originalEntries
  /\ entries' = discardChanges(originalEntries)
  /\ Refiltered(entries', originalEntries)
  /\ UNCHANGED <<originalEntries, searchQuery, filterStatus, sortBy, sortOrder, savePc,
                 validEntries, toast, persisted, loaded, edits, nextId, hostsFile>>
  /\ UNCHANGED <<codecVars, mainVars, backupFiles, wpc, wEntries, wError, wBackup, prompts, calls>>

\* the entries the preload bridge sends on: plain objects, empty comment and
\* group turned into undefined
Serializable(list) ==
  [k \in 1..Len(list) |->
     [list[k] EXCEPT !.comment = IF Truthy(list[k].comment) THEN list[k].comment ELSE Undefined,
                     !.group = IF Truthy(list[k].group) THEN list[k].group ELSE Undefined]]

\* Header.writeHosts up to its await: nothing to save, or the valid entries are
\* sent to the write collaborator
SaveStart ==
  /\ savePc = "idle"
  /\ edits < MaxEdits
  /\ edits' = edits + 1
  /\ IF Len(entries) = 0
     THEN /\ toast' = "warning"
          /\ UNCHANGED <<savePc, validEntries>>
     ELSE /\ validEntries' = SelectSeq(entries, LAMBDA e : e.ip # <<>>)
          /\ toast' = "info"
          /\ savePc' = "awaiting"
  /\ UNCHANGED <<entries, originalEntries, filteredEntries, searchQuery, filterStatus,
                 sortBy, sortOrder, persisted, loaded, nextId, hostsFile>>
  /\ UNCHANGED <<codecVars, mainVars, backupFiles, wpc, wEntries, wError, wBackup, prompts, calls>>

\* the write collaborator answered success: it accepted the list it was sent
\* and wrote it; Header.writeHosts calls markAsSaved()
SaveSucceed ==
  /\ savePc = "awaiting"
  /\ validateEntriesForWrite(Serializable(validEntries)) = NoError
  /\ \E now \in Timestamps : hostsFile' = stringify(Serializable(validEntries), now)
  /\ persisted' = validEntries
  /\ originalEntries' = markAsSaved(entries)
  /\ Refiltered(entries, originalEntries')
  /\ toast' = "success"
  /\ savePc' = "idle"
  /\ UNCHANGED <<entries, searchQuery, filterStatus, sortBy, sortOrder, validEntries,
                 loaded, edits, nextId>>
  /\ UNCHANGED <<codecVars, mainVars, backupFiles, wpc, wEntries, wError, wBackup, prompts, calls>>


\* a failure branch that marks the entries saved all the same
SaveFail_MarksSaved ==
  /\ savePc = "awaiting"
  /\ toast' = "error"
  /\ savePc' = "idle"
  /\ originalEntries' = markAsSaved(entries)
  /\ Refiltered(entries, originalEntries')
  /\ UNCHANGED <<entries, searchQuery, filterStatus,
                 sortBy, sortOrder, validEntries, persisted, loaded, edits, nextId,
                 hostsFile>>
  /\ UNCHANGED <<codecVars, mainVars, backupFiles, wpc, wEntries, wError, wBackup, prompts, calls>>

\* the write collaborator answered failure (validation, permission denied,
\* cancelled prompt, I/O) or the call threw: an error toast, nothing else
SaveFail ==
  /\ savePc = "awaiting"
  /\ toast' = "error"
  /\ savePc' = "idle"
  /\ UNCHANGED <<entries, originalEntries, filteredEntries, searchQuery, filterStatus,
                 sortBy, sortOrder, validEntries, persisted, loaded, edits, nextId,
                 hostsFile>>
  /\ UNCHANGED <<codecVars, mainVars, backupFiles, wpc, wEntries, wError, wBackup, prompts, calls>>

Init ==
  /\ CodecOff
  /\ StoreOff
  /\ MainOff
  /\ hostsFile \in StoreHostsFiles
  /\ backupFiles = <<>>
  /\ wpc = "idle"
  /\ wEntries = <<>>
  /\ wError = NoError
  /\ wBackup = "none"
  /\ prompts = 0
  /\ calls = 0

Next ==
  \/ LoadHosts
  \/ WatchDeliver
  \/ AddEntry
  \/ UpdateEntry
  \/ DeleteEntry
  \/ ToggleEntry
  \/ DiscardChanges
  \/ SaveStart
  \/ SaveSucceed
  \/ SaveFail

Spec == Init /\ [][Next]_vars

(***************************************************************************)
(* Properties of the renderer store                                        *)
(***************************************************************************)

\* how often a hostname occurs in a hostname list
Occurrences(hostnames, h) == Cardinality({ k \in 1..Len(hostnames) : hostnames[k] = h })

\* two hostname lists hold the same hostnames the same number of times
SameHostnames(a, b) ==
  \A h \in Range(a) \cup Range(b) : Occurrences(a, h) = Occurrences(b, h)

\* the entries of list with the given id
WithId(list, id) == { k \in 1..Len(list) : list[k].id = id }

\* no entry of entries is reported unsaved against orig
NothingUnsaved(ents, orig) == \A k \in 1..Len(ents) : ~isEntryUnsaved(ents[k], orig)

\* C6: in every reachable state originalEntries is the list of the last
\* load or the list the last successful save wrote to the hosts file, so an
\* entry edited while a save awaits its answer stays unsaved after the save.
C6_OriginalIsLastLoadedOrWritten == originalEntries = persisted

\* C7: the step in which a pending save ends with the error toast leaves
\* entries and originalEntries as they were, and every entry reported unsaved
\* before the step is reported unsaved after it.
C7_FailedSaveKeepsState ==
  [][(savePc = "awaiting" /\ savePc' = "idle" /\ toast' = "error") =>
       /\ entries' = entries
       /\ originalEntries' = originalEntries
       /\ \A k \in 1..Len(entries) :
            isEntryUnsaved(entries[k], originalEntries)
              => isEntryUnsaved(entries'[k], originalEntries')]_vars

\* a failed save has just ended while an entry is unsaved
C7_Witness ==
  /\ toast = "error"
  /\ savePc = "idle"
  /\ loaded
  /\ \E k \in 1..Len(entries) : isEntryUnsaved(entries[k], originalEntries)

\* C8: isEntryUnsaved (both copies) is true exactly when originalEntries has
\* no entry with the id, or the first entry with the id differs in ip, enabled,
\* comment or group, or holds other hostnames when order is disregarded.
C8_IsUnsavedExact ==
  \A k \in 1..Len(entries) :
    LET entry == entries[k]
        same  == WithId(originalEntries, entry.id)
        expected ==
          \/ same = {}
          \/ LET o == originalEntries[Min(same)]
             IN  \/ entry.ip # o.ip
                 \/ entry.enabled # o.enabled
                 \/ entry.comment # o.comment
                 \/ entry.group # o.group
                 \/ ~SameHostnames(entry.hostnames, o.hostnames)
    IN  /\ isEntryUnsaved(entry, originalEntries) <=> expected
        /\ isEntryUnsavedMain(entry, originalEntries) <=> expected

\* one entry has its hostnames reordered and is reported saved, another has a
\* hostname added and is reported unsaved
C8_Witness ==
  /\ \E k \in 1..Len(entries) : \E j \in 1..Len(originalEntries) :
       /\ entries[k].id = originalEntries[j].id
       /\ entries[k].hostnames # originalEntries[j].hostnames
       /\ SameHostnames(entries[k].hostnames, originalEntries[j].hostnames)
       /\ ~isEntryUnsaved(entries[k], originalEntries)
  /\ \E k \in 1..Len(entries) : \E j \in 1..Len(originalEntries) :
       /\ entries[k].id = originalEntries[j].id
       /\ Len(entries[k].hostnames) = Len(originalEntries[j].hostnames) + 1
       /\ isEntryUnsaved(entries[k], originalEntries)

\* C9: the step in which a pending save ends with the success toast (the
\* markAsSaved call) leaves no entry of entries unsaved and entries as it was;
\* markAsSaved applied again to the state it produced changes nothing, and
\* taken from a state that is already marked it leaves originalEntries and
\* the projection as they were.
C9_MarkSavedCleansAndIsIdempotent ==
  [][(savePc = "awaiting" /\ savePc' = "idle" /\ toast' = "success") =>
       /\ NothingUnsaved(entries', originalEntries')
       /\ entries' = entries
       /\ markAsSaved(entries') = originalEntries'
       /\ (originalEntries = markAsSaved(entries)
             => /\ originalEntries' = originalEntries
                /\ filteredEntries' = filteredEntries)]_vars

\* a save of a non-empty list has just succeeded after unsaved edits
C9_Witness ==
  /\ toast = "success"
  /\ savePc = "idle"
  /\ edits >= 2
  /\ Len(entries) >= 2
  /\ entries # parse(hostsFile)
  /\ NothingUnsaved(entries, originalEntries)

\* C10: a load, on mount or delivered by the watcher, leaves entries and
\* originalEntries both equal to the delivered list, in content and order,
\* and no entry of entries unsaved, whatever the state before.
C10_LoadResetsBoth ==
  [][(LoadHosts \/ WatchDeliver) =>
       /\ entries' = parse(hostsFile)
       /\ originalEntries' = parse(hostsFile)
       /\ NothingUnsaved(entries', originalEntries')]_vars

\* after an added entry and a save that rewrote the hosts file, a watcher
\* delivery has loaded the rewritten file: the store holds the file's entries,
\* none unsaved
C10_Witness ==
  /\ loaded
  /\ nextId > 0
  /\ hostsFile \notin StoreHostsFiles
  /\ Len(entries) > 0
  /\ entries = parse(hostsFile)
  /\ originalEntries = entries
  /\ NothingUnsaved(entries, originalEntries)

\* C11: a discard leaves entries equal to originalEntries in content and
\* order, originalEntries as it was, and no entry of entries unsaved.
C11_DiscardRestoresBaseline ==
  [][DiscardChanges =>
       /\ entries' = originalEntries
       /\ originalEntries' = originalEntries
       /\ NothingUnsaved(entries', originalEntries')]_vars

\* an entry was added to a loaded list and is gone again: the store holds
\* the baseline, none unsaved
C11_Witness ==
  /\ loaded
  /\ nextId = 1
  /\ edits = 1
  /\ savePc = "idle"
  /\ Len(entries) > 0
  /\ entries = originalEntries
  /\ \A k \in 1..Len(entries) : entries[k].id # NewEntry(0).id

(***************************************************************************)
(* The store on its own: every operation of useHostsStore, the search,     *)
(* status and sort settings included                                       *)
(***************************************************************************)

\* how many add / update / delete / toggle calls a behaviour holds
MaxViewEdits == 1

Text_Dev == <<"D", "e", "v">>
Query_Test == <<"T", "e", "s", "t">>

\* the lists a load delivers (as HostsParser.parse produces them: no group);
\* two entries share an ip in the first, a first hostname in the second
ViewLists ==
  { << Entry(0, IP_10_0_0_5, <<Host_b_test, Host_a_test>>, TRUE, Undefined),
       Entry(1, IP_Loopback6, <<Host_localhost>>, FALSE, Undefined),
       Entry(2, IP_10_0_0_5, <<Host_a_test>>, TRUE, Text_Dev) >>,
    << Entry(0, IP_127_0_0_1, <<Host_localhost>>, TRUE, Undefined),
       Entry(1, IP_10_0_0_5, <<Host_localhost, Host_a_test>>, FALSE, Undefined) >> }

\* what the search box holds
Queries == { <<>>, Query_Test, Text_dev }

FilterStatuses == { "all", "enabled", "disabled", "unsaved" }
SortFields == { "ip", "hostname", "group", "none" }
SortOrders == { "asc", "desc" }

\* an id no entry carries: an entry that was deleted, or never existed
GoneId == <<"entry", "gone", 0>>

\* the ids a component may still hold: of the working entries, of entries
\* deleted since the baseline, and of no entry at all
HeldIds == IdsOf(entries) \cup IdsOf(originalEntries) \cup {GoneId}

\* the updates an editor sends for the entry it was opened on
UpdatesFor(id) ==
  IF id \in IdsOf(entries) THEN EditorUpdates(findById(entries, id))
  ELSE IF id \in IdsOf(originalEntries) THEN EditorUpdates(findById(originalEntries, id))
  ELSE EditorUpdates(NewEntry(0))

\* what the store operations leave alone outside the store
ViewFrame ==
  /\ UNCHANGED <<savePc, validEntries, toast>>
  /\ UNCHANGED <<codecVars, writeVars, mainVars>>

\* setEntries(list)
StoreLoad ==
  /\ \E list \in ViewLists :
       /\ entries' = setEntries(ArrayValue(list))[1]
       /\ originalEntries' = setEntries(ArrayValue(list))[2]
       /\ persisted' = list
  /\ Refiltered(entries', originalEntries')
  /\ loaded' = TRUE
  /\ UNCHANGED <<searchQuery, filterStatus, sortBy, sortOrder, edits, nextId>>
  /\ ViewFrame

\* markAsSaved()
StoreMarkAsSaved ==
  /\ originalEntries' = markAsSaved(entries)
  /\ Refiltered(entries, originalEntries')
  /\ UNCHANGED <<entries, searchQuery, filterStatus, sortBy, sortOrder, persisted,
                 loaded, edits, nextId>>
  /\ ViewFrame

\* discardChanges()
StoreDiscard ==
  /\ entries' = discardChanges(originalEntries)
  /\ Refiltered(entries', originalEntries)
  /\ UNCHANGED <<originalEntries, searchQuery, filterStatus, sortBy, sortOrder, persisted,
                 loaded, edits, nextId>>
  /\ ViewFrame

\* an edit that also takes the edited list as the new baseline
StoreEditFrame_MovesBaseline ==
  /\ edits' = edits + 1
  /\ originalEntries' = entries'
  /\ UNCHANGED <<searchQuery, filterStatus, sortBy, sortOrder, persisted, loaded>>
  /\ ViewFrame

\* what add, update, delete and toggle leave alone
StoreEditFrame ==
  /\ edits' = edits + 1
  /\ UNCHANGED <<originalEntries, searchQuery, filterStatus, sortBy, sortOrder, persisted,
                 loaded>>
  /\ ViewFrame

\* addEntry(entryData)
StoreAdd ==
  /\ edits < MaxViewEdits
  /\ nextId < MaxAdds
  /\ entries' = Append(entries, NewEntry(nextId))
  /\ nextId' = nextId + 1
  /\ Refiltered(entries', originalEntries)
  /\ StoreEditFrame

\* updateEntry(id, updates), the id held by a component
StoreUpdate ==
  /\ edits < MaxViewEdits
  /\ \E id \in HeldIds : \E updates \in UpdatesFor(id) :
       entries' = updateEntry(entries, id, updates)
  /\ Refiltered(entries', originalEntries)
  /\ StoreEditFrame
  /\ UNCHANGED nextId

\* deleteEntry(id)
StoreDelete ==
  /\ edits < MaxViewEdits
  /\ \E id \in HeldIds : entries' = deleteEntry(entries, id)
  /\ Refiltered(entries', originalEntries)
  /\ StoreEditFrame
  /\ UNCHANGED nextId

\* toggleEntry(id)
StoreToggle ==
  /\ edits < MaxViewEdits
  /\ \E id \in HeldIds : entries' = toggleEntry(entries, id)
  /\ Refiltered(entries', originalEntries)
  /\ StoreEditFrame
  /\ UNCHANGED nextId

\* what the four setters leave alone
SetterFrame ==
  /\ UNCHANGED <<entries, originalEntries, persisted, loaded, edits, nextId>>
  /\ ViewFrame

\* setSearchQuery(query)
SetSearchQuery ==
  /\ \E query \in Queries : searchQuery' = query
  /\ filteredEntries' =
       applyFilters(entries, originalEntries, searchQuery', filterStatus, sortBy, sortOrder)
  /\ UNCHANGED <<filterStatus, sortBy, sortOrder>>
  /\ SetterFrame

\* setFilterStatus(status)
SetFilterStatus ==
  /\ \E status \in FilterStatuses : filterStatus' = status
  /\ filteredEntries' =
       applyFilters(entries, originalEntries, searchQuery, filterStatus', sortBy, sortOrder)
  /\ UNCHANGED <<searchQuery, sortBy, sortOrder>>
  /\ SetterFrame

\* setSortBy(sortBy)
SetSortBy ==
  /\ \E by \in SortFields : sortBy' = by
  /\ filteredEntries' =
       applyFilters(entries, originalEntries, searchQuery, filterStatus, sortBy', sortOrder)
  /\ UNCHANGED <<searchQuery, filterStatus, sortOrder>>
  /\ SetterFrame

\* setSortOrder(order)
SetSortOrder ==
  /\ \E order \in SortOrders : sortOrder' = order
  /\ filteredEntries' =
       applyFilters(entries, originalEntries, searchQuery, filterStatus, sortBy, sortOrder')
  /\ UNCHANGED <<searchQuery, filterStatus, sortBy>>
  /\ SetterFrame

ViewInit ==
  /\ CodecOff
  /\ WriteOff
  /\ StoreOff
  /\ MainOff

ViewNext ==
  \/ StoreLoad
  \/ StoreMarkAsSaved
  \/ StoreDiscard
  \/ StoreAdd
  \/ StoreUpdate
  \/ StoreDelete
  \/ StoreToggle
  \/ SetSearchQuery
  \/ SetFilterStatus
  \/ SetSortBy
  \/ SetSortOrder

SpecView == ViewInit /\ [][ViewNext]_vars

(***************************************************************************)
(* Properties of the store operations                                      *)
(***************************************************************************)

settings == <<searchQuery, filterStatus, sortBy, sortOrder>>

\* C12: a step that adds, updates, deletes or toggles an entry leaves
\* originalEntries as it was; a step that changes the search query, the status
\* filter or the sort settings leaves entries and originalEntries as they were.
C12_EditsAndSettersKeepBaseline ==
  [][/\ edits' # edits => originalEntries' = originalEntries
     /\ settings' # settings =>
          /\ entries' = entries
          /\ originalEntries' = originalEntries]_vars

\* an entry was edited under a search query and a sort: the working list
\* differs from the loaded baseline, which is as it was delivered
C12_Witness ==
  /\ edits = 1
  /\ entries # originalEntries
  /\ originalEntries \in ViewLists
  /\ searchQuery # <<>>
  /\ filterStatus # "all"
  /\ sortBy # "none"

\* C13: updateEntry, deleteEntry and toggleEntry called with an id that no
\* entry of entries carries leave entries and originalEntries as they were.
C13_UnknownIdChangesNothing ==
  [][edits' = edits + 1 =>
       \A id \in HeldIds \ IdsOf(entries) :
         (\/ entries' = deleteEntry(entries, id)
          \/ entries' = toggleEntry(entries, id)
          \/ \E updates \in UpdatesFor(id) : entries' = updateEntry(entries, id, updates))
           => /\ entries' = entries
              /\ originalEntries' = originalEntries]_vars

\* an edit call was made on a loaded list and the list is as it was loaded
C13_Witness ==
  /\ edits = 1
  /\ nextId = 0
  /\ Len(entries) > 0
  /\ entries = persisted
  /\ originalEntries = persisted

\* the texts of an entry the search looks into
SearchedTexts(e) ==
  {e.ip} \cup Range(e.hostnames)
    \cup (IF e.comment = Undefined THEN {} ELSE {e.comment})
    \cup (IF e.group = Undefined THEN {} ELSE {e.group})

\* q occurs in str when letter case is disregarded
OccursIgnoringCase(q, str) ==
  \E i \in 1..(Len(str) - Len(q) + 1) :
    \A k \in 1..Len(q) : LowerChar(str[i + k - 1]) = LowerChar(q[k])

\* the entry passes the search query and the status filter of the store
Shown(e) ==
  /\ searchQuery = <<>> \/ \E str \in SearchedTexts(e) : OccursIgnoringCase(searchQuery, str)
  /\ CASE filterStatus = "enabled" -> e.enabled
       [] filterStatus = "disabled" -> ~e.enabled
       [] filterStatus = "unsaved" -> isEntryUnsaved(e, originalEntries)
       [] OTHER -> TRUE

\* C14: in every state filteredEntries is what applyFilters gives for the
\* current entries, originalEntries and settings; it holds exactly the entries
\* that pass the query (case-insensitive substring of ip, a hostname, comment
\* or group; all when the query is empty) and the status filter, each once,
\* and in the order of entries when the sort field is "none".
C14_ProjectionIsCurrent ==
  /\ filteredEntries =
       applyFilters(entries, originalEntries, searchQuery, filterStatus, sortBy, sortOrder)
  /\ Range(filteredEntries) = { e \in Range(entries) : Shown(e) }
  /\ Len(filteredEntries) = Cardinality({ k \in 1..Len(entries) : Shown(entries[k]) })
  /\ sortBy = "none" => filteredEntries = SelectSeq(entries, LAMBDA e : Shown(e))

\* a search typed with a capital letter and a status filter show some of the
\* entries and hide others
C14_Witness ==
  /\ searchQuery = Query_Test
  /\ filterStatus = "unsaved"
  /\ Len(filteredEntries) > 0
  /\ Len(filteredEntries) < Len(entries)
  /\ \E k \in 1..Len(entries) :
       /\ \E str \in SearchedTexts(entries[k]) : OccursIgnoringCase(searchQuery, str)
       /\ ~Shown(entries[k])

Reverse(seq) == [k \in 1..Len(seq) |-> seq[Len(seq) + 1 - k]]

\* where the entry stands in the working list
PositionIn(list, e) == Min({ k \in 1..Len(list) : list[k].id = e.id })

\* the projection of the current state under the given sort order
ProjectionIn(order) ==
  applyFilters(entries, originalEntries, searchQuery, filterStatus, sortBy, order)

\* the projection is ordered by the key of the sort field: non-decreasing for
\* "asc", non-increasing for "desc"
OrderedByKey ==
  \A k \in 1..(Len(filteredEntries) - 1) :
    LET c == localeCompare(sortKey(filteredEntries[k], sortBy),
                           sortKey(filteredEntries[k + 1], sortBy))
    IN  IF sortOrder = "asc" THEN c <= 0 ELSE c >= 0

\* entries of the projection with equal keys stand as they do in entries
EqualKeysKeepOrder ==
  \A i, j \in 1..Len(filteredEntries) :
    (i < j /\ sortKey(filteredEntries[i], sortBy) = sortKey(filteredEntries[j], sortBy))
      => PositionIn(entries, filteredEntries[i]) < PositionIn(entries, filteredEntries[j])

\* no two entries of the projection have the same key
KeysDistinct ==
  \A i, j \in 1..Len(filteredEntries) :
    i # j => sortKey(filteredEntries[i], sortBy) # sortKey(filteredEntries[j], sortBy)

\* C15 as stated: with a sort field set the projection is ordered by key,
\* the descending projection is the reverse of the ascending one, and entries
\* with equal keys keep their order in entries.
C15_DescendingIsReverse ==
  sortBy # "none" =>
    /\ OrderedByKey
    /\ EqualKeysKeepOrder
    /\ ProjectionIn("desc") = Reverse(ProjectionIn("asc"))

\* C15 amended: with a sort field set the projection is ordered by key and
\* entries with equal keys keep their order in entries, in both directions;
\* the descending projection is the reverse of the ascending one when no two
\* shown entries have the same key.
C15_StableSortBothWays ==
  sortBy # "none" =>
    /\ OrderedByKey
    /\ EqualKeysKeepOrder
    /\ KeysDistinct => ProjectionIn("desc") = Reverse(ProjectionIn("asc"))

\* a descending sort by ip shows three entries, two of them with the same ip
C15_Witness ==
  /\ sortBy = "ip"
  /\ sortOrder = "desc"
  /\ Len(filteredEntries) >= 3
  /\ ~KeysDistinct
  /\ \E k \in 1..(Len(filteredEntries) - 1) :
       filteredEntries[k].ip # filteredEntries[k + 1].ip

(***************************************************************************)
(* Saving with nothing to save: the write path together with the save      *)
(* action of a renderer whose store holds no entries                       *)
(***************************************************************************)

SaveEmptyNext ==
  \/ WriteNext
  \/ SaveStart

SpecSaveEmpty == WriteInit /\ [][SaveEmptyNext]_vars

EmptyFileMessage == "Cannot save empty hosts file"

\* C16: an empty entry list is refused at every layer and nothing is written.
\* A hosts:write or writeHosts call that begins with an empty list fails at
\* once with "Cannot save empty hosts file", with no permission prompt, no
\* backup and the hosts file as it was, and nothing later in that call writes;
\* the save action of a store without entries shows a warning, starts no
\* call and leaves originalEntries as it was.
C16_EmptyListRefused ==
  [][/\ (calls' = calls + 1 /\ Len(wEntries') = 0) =>
          /\ wpc' = "failed"
          /\ wError' # NoError
          /\ wError'.message = EmptyFileMessage
          /\ UNCHANGED <<hostsFile, backupFiles, prompts>>
     /\ (wpc = "failed" /\ Len(wEntries) = 0 /\ calls' = calls) =>
          UNCHANGED <<hostsFile, prompts, wpc>>
     /\ (savePc = "idle" /\ Len(entries) = 0 /\ edits' = edits + 1) =>
          /\ toast' = "warning"
          /\ savePc' = "idle"
          /\ UNCHANGED <<entries, originalEntries, writeVars>>]_vars

\* writeHosts itself has refused an empty list (the restore of a backup
\* without entries), and the save action has warned that there is nothing
\* to save
C16_Witness ==
  /\ wpc = "failed"
  /\ Len(wEntries) = 0
  /\ wError # NoError
  /\ wError.name = "Error"
  /\ wError.message = EmptyFileMessage
  /\ toast = "warning"
  /\ originalEntries = <<>>

(***************************************************************************)
(* The parser on texts of every kind of line                               *)
(***************************************************************************)

MaxTextLines == 3

Text_note == <<"n", "o", "t", "e">>

\* one line of each kind parse tells apart: an entry, an entry with a trailing
\* comment, a blank line, a single token, a line whose first token is no
\* address, a commented-out entry, a comment of one word, one of two words,
\* one without text and one whose first word ends in two colons
LineKinds ==
  { IP_10_0_0_5 \o <<" ">> \o Host_a_test,
    IP_Loopback6 \o <<" ">> \o Host_b_test \o <<" ", "#", " ">> \o Text_dev,
    <<>>,
    Host_localhost,
    IP_256 \o <<" ">> \o Host_a_test,
    <<"#", " ">> \o IP_Loopback6 \o <<" ">> \o Host_localhost,
    <<"#", " ">> \o Text_note,
    <<"#">> \o Text_staging_box,
    <<"#">>,
    <<"#", " ">> \o Text_note \o <<":", ":", " ">> \o Text_dev }

\* the texts handed to parse: up to MaxTextLines lines, each ended by a newline
LineTexts ==
  { Join(ls, NL) \o NL : ls \in SeqsUpTo(LineKinds, MaxTextLines) }

LinesInit ==
  /\ WriteOff
  /\ StoreOff
  /\ MainOff
  /\ via = "none"
  /\ outText = <<>>
  /\ ents1 = <<>>
  /\ cpc = "text"
  /\ origin = "lines"
  /\ srcText \in LineTexts
  /\ ents0 = <<>>

LinesNext == ParseText

SpecLines == LinesInit /\ [][LinesNext]_vars

\* the lines of the text handed to parse
srcLines == Split(srcText, "\n")

\* what an entry holds apart from its id
ContentOf(e) ==
  [ip |-> e.ip, hostnames |-> e.hostnames, enabled |-> e.enabled, comment |-> e.comment]

ContentsOf(list) == [k \in 1..Len(list) |-> ContentOf(list[k])]

\* the line is neither blank nor a comment line
IsPlainLine(line) == Trim(line) # <<>> /\ ~StartsWithHash(Trim(line))

\* a plain line with fewer than two tokens or whose first token is no address
IsInvalidLine(line) ==
  /\ IsPlainLine(line)
  /\ \/ Len(SplitWs(Trim(line))) < 2
     \/ ~isValidIP(SplitWs(Trim(line))[1])

\* the lines without the line at index k
WithoutLine(lines, k) == SubSeq(lines, 1, k - 1) \o SubSeq(lines, k + 1, Len(lines))

\* C17: parse returns a list for every text, and a plain line with fewer than
\* two tokens or an invalid first token leaves the result as it would be
\* with that line absent: the same entries (ip, hostnames, enabled, comment)
\* in the same order.
C17_InvalidLineIsAbsent ==
  (cpc = "parsed" /\ origin = "lines") =>
    \A k \in 1..Len(srcLines) :
      IsInvalidLine(srcLines[k]) =>
        ContentsOf(ents0) = ContentsOf(parseLoop(WithoutLine(srcLines, k), 1, <<>>, 0))

\* what an entry holds apart from its id and its comment
AddressOf(e) == [ip |-> e.ip, hostnames |-> e.hostnames, enabled |-> e.enabled]

AddressesOf(list) == [k \in 1..Len(list) |-> AddressOf(list[k])]

\* a comment line whose remainder does not decode as an entry
IsPlainComment(line) ==
  /\ StartsWithHash(Trim(line))
  /\ parseEntryLine(Trim(Substring1(Trim(line))), 0) = Null

\* C17 amended: parse returns a list for every text, and a plain line with
\* fewer than two tokens or an invalid first token contributes no entry: the
\* result holds the entries it would hold with that line absent, in the same
\* order, with the same ip, hostnames and enabled flag (ids apart), and with
\* the same comments too unless the line right after it is a plain comment
\* line.
C17_InvalidLineAddsNoEntry ==
  (cpc = "parsed" /\ origin = "lines") =>
    \A k \in 1..Len(srcLines) :
      IsInvalidLine(srcLines[k]) =>
        LET without == parseLoop(WithoutLine(srcLines, k), 1, <<>>, 0)
        IN  /\ AddressesOf(ents0) = AddressesOf(without)
            /\ (k = Len(srcLines) \/ ~IsPlainComment(srcLines[k + 1]))
                 => ContentsOf(ents0) = ContentsOf(without)

\* a text with an invalid line between two entry lines has been parsed
C17_Witness ==
  /\ cpc = "parsed"
  /\ origin = "lines"
  /\ Len(ents0) = 2
  /\ Len(srcLines) >= 3
  /\ IsInvalidLine(srcLines[2])

\* the entries parse holds after the first k lines
ParsedUpTo(k) == parseLoop(SubSeq(srcLines, 1, k), 1, <<>>, 0)

\* the text of a comment line: the leading "#" stripped, trimmed
CommentText(line) == Trim(Substring1(Trim(line)))

\* the raw line before line k is non-empty and not a comment line, and
\* entries have been produced before line k
FollowsPlainLine(k) ==
  /\ k > 1
  /\ IsPlainLine(srcLines[k - 1])
  /\ Len(ParsedUpTo(k - 1)) > 0

\* list with the comment of its last entry set to text
WithLastComment(list, text) == [list EXCEPT ![Len(list)].comment = text]

\* C18 as stated: a plain comment line sets the comment of the most recently
\* appended entry to its text exactly when the raw line before it is non-empty
\* and not a comment line and the result list is non-empty; otherwise no
\* entry is changed.
C18_CommentAttachedByPreviousLine ==
  (cpc = "parsed" /\ origin = "lines") =>
    \A k \in 1..Len(srcLines) :
      IsPlainComment(srcLines[k]) =>
        ParsedUpTo(k) =
          IF FollowsPlainLine(k)
          THEN WithLastComment(ParsedUpTo(k - 1), CommentText(srcLines[k]))
          ELSE ParsedUpTo(k - 1)

\* C18 amended: a plain comment line sets the comment of the most recently
\* appended entry to its text exactly when that text is non-empty, the raw
\* line before it is non-empty and not a comment line, and the result list is
\* non-empty; otherwise no entry is changed.
C18_NonEmptyCommentAttached ==
  (cpc = "parsed" /\ origin = "lines") =>
    \A k \in 1..Len(srcLines) :
      IsPlainComment(srcLines[k]) =>
        ParsedUpTo(k) =
          IF FollowsPlainLine(k) /\ CommentText(srcLines[k]) # <<>>
          THEN WithLastComment(ParsedUpTo(k - 1), CommentText(srcLines[k]))
          ELSE ParsedUpTo(k - 1)

\* an entry line, a comment that is attached to it, and a second comment that
\* is discarded because it follows a comment line
C18_Witness ==
  /\ cpc = "parsed"
  /\ origin = "lines"
  /\ Len(srcLines) >= 3
  /\ IsPlainComment(srcLines[2])
  /\ IsPlainComment(srcLines[3])
  /\ CommentText(srcLines[3]) # <<>>
  /\ CommentText(srcLines[3]) # CommentText(srcLines[2])
  /\ Len(ents0) = 1
  /\ ents0[1].comment = CommentText(srcLines[2])

(***************************************************************************)
(* The layout of the text stringify writes                                 *)
(***************************************************************************)

\* the lines of the written text: what is between its newlines
outLines == Split(outText, "\n")

HasComment(e) == e.comment # Undefined /\ e.comment # <<>>

\* how many lines an entry takes
LineCount(e) == IF ~e.enabled /\ HasComment(e) THEN 2 ELSE 1

RECURSIVE LinesBefore(_, _)
\* how many lines the entries before the k-th take
LinesBefore(list, k) ==
  IF k <= 1 THEN 0 ELSE LinesBefore(list, k - 1) + LineCount(list[k - 1])

HeaderLineCount == 3

\* text is the ip and the hostnames of e with one space between each two
IsAddressLine(text, e) == Split(text, " ") = <<e.ip>> \o e.hostnames

\* text is tail appended to head
EndsWith(text, tail) ==
  /\ Len(text) >= Len(tail)
  /\ SubSeq(text, Len(text) - Len(tail) + 1, Len(text)) = tail

WithoutTail(text, tail) == SubSeq(text, 1, Len(text) - Len(tail))

\* the lines from index first on are those of entry e
IsEntryAt(first, e) ==
  IF e.enabled
  THEN IF HasComment(e)
       THEN /\ EndsWith(outLines[first], <<" ", "#", " ">> \o e.comment)
            /\ IsAddressLine(WithoutTail(outLines[first], <<" ", "#", " ">> \o e.comment), e)
       ELSE IsAddressLine(outLines[first], e)
  ELSE /\ SubSeq(outLines[first], 1, 2) = <<"#", " ">>
       /\ IsAddressLine(SubSeq(outLines[first], 3, Len(outLines[first])), e)
       /\ HasComment(e) => outLines[first + 1] = <<"#", " ">> \o e.comment

\* C19: the text stringify writes is the three header lines, then the lines
\* of each entry in input order with nothing in between, each line ended by
\* one newline and nothing after the last: an enabled entry takes one line,
\* '<ip> <hostnames joined by one space>' with ' # <comment>' appended when it
\* has a comment; a disabled entry takes '# <ip> <hostnames>' and, only when
\* it has a comment, a second line '# <comment>'.
C19_StringifyLayout ==
  (cpc = "written" /\ via = "stringify") =>
    /\ Len(outLines) = HeaderLineCount + LinesBefore(ents0, Len(ents0) + 1) + 1
    /\ outLines[1] = BannerLine
    /\ \E now \in Timestamps : outLines[2] = GeneratedAt \o now
    /\ outLines[3] = <<>>
    /\ outLines[Len(outLines)] = <<>>
    /\ \A k \in 1..Len(ents0) : IsEntryAt(HeaderLineCount + LinesBefore(ents0, k) + 1, ents0[k])
    /\ Len(ents0) > 0 => outText[Len(outText) - 1] # "\n"

\* a disabled entry with a comment and then an enabled entry with a comment
\* have been written
C19_Witness ==
  /\ cpc = "written"
  /\ via = "stringify"
  /\ Len(ents0) = 2
  /\ ~ents0[1].enabled
  /\ HasComment(ents0[1])
  /\ ents0[2].enabled
  /\ HasComment(ents0[2])
  /\ Len(ents0[2].hostnames) = 2

(***************************************************************************)
(* Values that are no list where an entry list is expected                 *)
(***************************************************************************)

\* what stringify throws for its argument, NoError when it goes on
stringifyArgumentError(value) ==
  IF value.type \in {"undefined", "null"}
  THEN Err("Error", "Entries is null or undefined in stringify", <<>>)
  ELSE IF ~isArray(value)
  THEN Err("TypeError", "Entries must be an array in stringify", <<>>)
  ELSE NoError

\* what validateEntriesForWrite, the first statement of writeHosts, throws
\* for its argument, NoError when it returns
validateArgumentForWrite(value) ==
  IF ~isArray(value) THEN Err("TypeError", "Entries must be an array", <<>>)
  ELSE validateEntriesForWrite(value.items)

\* setEntries(value) with a value that is no array
StoreLoadNonList ==
  /\ \E value \in NonListValues :
       /\ entries' = setEntries(value)[1]
       /\ originalEntries' = setEntries(value)[2]
  /\ Refiltered(entries', originalEntries')
  /\ UNCHANGED <<searchQuery, filterStatus, sortBy, sortOrder, persisted, loaded, edits,
                 nextId>>
  /\ ViewFrame

TypesNext ==
  \/ ViewNext
  \/ StoreLoadNonList

SpecTypes == ViewInit /\ [][TypesNext]_vars

\* C20: a value that is no list is rejected where an entry list is expected
\* and has no effect: stringify throws, writeHosts throws a type error in its
\* first statement, and the store's load leaves entries and originalEntries
\* as they were.
C20_NonListRejected ==
  [][StoreLoadNonList =>
       /\ \A value \in NonListValues :
            /\ stringifyArgumentError(value) # NoError
            /\ validateArgumentForWrite(value).name = "TypeError"
       /\ UNCHANGED <<entries, originalEntries>>]_vars

(***************************************************************************)
(* The identifiers parse hands out                                         *)
(***************************************************************************)

\* the number in the id of a parsed entry: n of entry-n
IdNumber(e) == e.id[2]

\* the lines of the text that are not blank, in order
NonBlankLines == SelectSeq(srcLines, LAMBDA l : Trim(l) # <<>>)

\* the line gives an entry: an entry line, or a commented-out entry line
GivesEntry(line) ==
  \/ IsPlainLine(line) /\ ~IsInvalidLine(line)
  \/ StartsWithHash(Trim(line)) /\ ~IsPlainComment(line)

\* C21: within one parse call the entries carry the identifiers 0, 1, 2, ... in
\* output order: the first entry the first identifier, each next entry the
\* next one, with no gap for a skipped comment line or malformed line.
C21_IdsWithoutGaps ==
  (cpc = "parsed" /\ origin = "lines") =>
    \A k \in 1..Len(ents0) : ents0[k].id = <<"entry", k - 1>>

\* C21 amended: within one parse call the identifiers strictly increase in
\* output order, so they are unique within the result; the entry of the j-th
\* non-blank line carries the identifier j - 1, so every comment line and
\* every malformed line before an entry leaves a gap of one.
C21_IdsIncreaseByLine ==
  (cpc = "parsed" /\ origin = "lines") =>
    /\ \A k \in 1..Len(ents0) : ents0[k].id[1] = "entry"
    /\ \A k \in 1..(Len(ents0) - 1) : IdNumber(ents0[k]) < IdNumber(ents0[k + 1])
    /\ \A k, m \in 1..Len(ents0) : ents0[k].id = ents0[m].id => k = m
    /\ { IdNumber(ents0[k]) : k \in 1..Len(ents0) }
         = { j - 1 : j \in { n \in 1..Len(NonBlankLines) : GivesEntry(NonBlankLines[n]) } }

\* two entries have been parsed from a text of three lines whose first line
\* is a comment or a malformed line: the identifiers start after a gap
C21_Witness ==
  /\ cpc = "parsed"
  /\ origin = "lines"
  /\ Len(NonBlankLines) = 3
  /\ ~GivesEntry(NonBlankLines[1])
  /\ Len(ents0) = 2
  /\ IdNumber(ents0[1]) = 1
  /\ IdNumber(ents0[2]) = 2

(***************************************************************************)
(* The address check on address-like texts                                 *)
(***************************************************************************)

MaxSideGroups == 2

Group_2001 == <<"2", "0", "0", "1">>
Group_db8 == <<"d", "b", "8">>
Group_12345 == <<"1", "2", "3", "4", "5">>

\* the groups between the dots of the dotted texts
DottedGroups == {<<"0">>, <<"1", "2", "7">>, <<"2", "5", "5">>, <<"2", "5", "6">>}

\* three, four and five groups joined by dots, and a group of four digits
DottedTexts ==
  { Join(gs, <<".">>) : gs \in [1..3 -> DottedGroups] \cup [1..4 -> DottedGroups] }
    \cup { Join(<<g, g, g, g, g>>, <<".">>) : g \in DottedGroups }
    \cup { <<"0", "0", "0", "1", ".", "0", ".", "0", ".", "1">> }

\* the groups between the colons of the colon texts: hexadecimal groups, a
\* group of five digits and a word
ColonGroups == {Group_2001, Group_db8, <<"1">>, Group_12345, Text_note}

\* left "::" right with up to MaxSideGroups groups on each side
CompressedTexts ==
  { Join(l, <<":">>) \o <<":", ":">> \o Join(r, <<":">>) :
      l \in SeqsUpTo(ColonGroups, MaxSideGroups), r \in SeqsUpTo(ColonGroups, MaxSideGroups) }

\* n groups "1" joined by colons
Ones(n) == Join([k \in 1..n |-> <<"1">>], <<":">>)

\* seven, eight and nine groups without a marker, eight and nine groups
\* with one, two markers, three colons in a row, and a word
OtherTexts ==
  { Ones(7), Ones(8), Ones(9),
    Ones(4) \o <<":", ":">> \o Ones(4),
    Ones(5) \o <<":", ":">> \o Ones(4),
    <<"1", ":", ":", "1", ":", ":", "1">>,
    <<":", ":", ":">>,
    IP_NotAnIp,
    <<>> }

AddressTexts == DottedTexts \cup CompressedTexts \cup OtherTexts

AddressInit ==
  /\ WriteOff
  /\ StoreOff
  /\ MainOff
  /\ via = "none"
  /\ outText = <<>>
  /\ ents0 = <<>>
  /\ ents1 = <<>>
  /\ cpc = "address"
  /\ origin = "address"
  /\ srcText \in AddressTexts

\* HostsParser.isValidIP(ip)
ValidateAddress ==
  /\ cpc = "address"
  /\ via' = IF isValidIP(srcText) THEN "valid" ELSE "invalid"
  /\ cpc' = "validated"
  /\ UNCHANGED <<origin, srcText, ents0, outText, ents1, nonCodecVars>>

AddressNext == ValidateAddress

SpecAddress == AddressInit /\ [][AddressNext]_vars

\* a group of one to four hexadecimal digits
IsHexGroup(g) == Len(g) \in 1..4 /\ \A n \in 1..Len(g) : g[n] \in HexDigits

\* a decimal group with a value in 0..255
IsOctet(g) ==
  /\ Len(g) >= 1
  /\ \A n \in 1..Len(g) : g[n] \in Digits
  /\ ToNumber(g, 0) <= 255

\* four dot-separated decimal groups, each in 0..255, and nothing else
IsIPv4Literal(text) ==
  /\ Len(Split(text, ".")) = 4
  /\ \A k \in 1..4 : IsOctet(Split(text, ".")[k])

\* eight colon-separated groups of one to four hexadecimal digits
IsFullIPv6Literal(text) ==
  /\ Len(Split(text, ":")) = 8
  /\ \A k \in 1..8 : IsHexGroup(Split(text, ":")[k])

\* the places where text has two colons in a row
MarkerPlaces(text) == { i \in 1..(Len(text) - 1) : text[i] = ":" /\ text[i + 1] = ":" }

\* the explicit groups of one side of the marker
SideGroups(side) == IF side = <<>> THEN <<>> ELSE Split(side, ":")

\* exactly one "::" marker, groups of hexadecimal digits on both sides, at
\* most eight of them in total
IsCompressedIPv6Literal(text) ==
  /\ Cardinality(MarkerPlaces(text)) = 1
  /\ LET i == CHOOSE p \in MarkerPlaces(text) : TRUE
         left == SideGroups(SubSeq(text, 1, i - 1))
         right == SideGroups(SubSeq(text, i + 2, Len(text)))
     IN  /\ \A k \in 1..Len(left) : IsHexGroup(left[k])
         /\ \A k \in 1..Len(right) : IsHexGroup(right[k])
         /\ Len(left) + Len(right) <= 8

\* an address literal as the contract of isValidAddress describes it
IsAddressLiteral(text) ==
  \/ IsIPv4Literal(text)
  \/ IsFullIPv6Literal(text)
  \/ text = <<":", ":", "1">>
  \/ text = <<":", ":">>
  \/ IsCompressedIPv6Literal(text)

\* C23: isValidIP(text) is true exactly when text is an IPv4 literal of four
\* dot-separated decimal groups each in 0..255, or eight colon-separated
\* groups of one to four hexadecimal digits, or "::1" or "::", or a form with
\* exactly one "::" marker and at most eight explicit groups in total; so
\* "127.0.0.1", "::1" and "2001:db8::1" are accepted and "256.0.0.1" and
\* "not-an-ip" are rejected.
C23_AddressCheckExact ==
  /\ (cpc = "validated" /\ origin = "address") =>
        (via = "valid" <=> IsAddressLiteral(srcText))
  /\ isValidIP(IP_127_0_0_1)
  /\ isValidIP(IP_Loopback6)
  /\ isValidIP(Group_2001 \o <<":">> \o Group_db8 \o <<":", ":", "1">>)
  /\ ~isValidIP(IP_256)
  /\ ~isValidIP(IP_NotAnIp)

(***************************************************************************)
(* The store over several additions and removals                           *)
(***************************************************************************)

MaxIdEdits == 3
MaxIdAdds == 2

\* addEntry(entryData)
IdsAdd ==
  /\ edits < MaxIdEdits
  /\ nextId < MaxIdAdds
  /\ entries' = Append(entries, NewEntry(nextId))
  /\ nextId' = nextId + 1
  /\ Refiltered(entries', originalEntries)
  /\ StoreEditFrame

\* updateEntry(id, updates), the updates without an id field
IdsUpdate ==
  /\ edits < MaxIdEdits
  /\ \E id \in HeldIds : \E updates \in UpdatesFor(id) :
       entries' = updateEntry(entries, id, updates)
  /\ Refiltered(entries', originalEntries)
  /\ StoreEditFrame
  /\ UNCHANGED nextId

\* deleteEntry(id)
IdsDelete ==
  /\ edits < MaxIdEdits
  /\ \E id \in HeldIds : entries' = deleteEntry(entries, id)
  /\ Refiltered(entries', originalEntries)
  /\ StoreEditFrame
  /\ UNCHANGED nextId

\* toggleEntry(id)
IdsToggle ==
  /\ edits < MaxIdEdits
  /\ \E id \in HeldIds : entries' = toggleEntry(entries, id)
  /\ Refiltered(entries', originalEntries)
  /\ StoreEditFrame
  /\ UNCHANGED nextId

IdsNext ==
  \/ StoreLoad
  \/ StoreMarkAsSaved
  \/ StoreDiscard
  \/ IdsAdd
  \/ IdsUpdate
  \/ IdsDelete
  \/ IdsToggle

SpecIds == ViewInit /\ [][IdsNext]_vars

\* no two entries of list share an id
UniqueIds(list) == \A k, m \in 1..Len(list) : list[k].id = list[m].id => k = m

\* the id was made by addEntry
IsAddedId(id) == Len(id) = 3 /\ id[2] = "new"

\* the ids addEntry has made that the store holds
AddedIdsHeld == { id \in IdsOf(entries) \cup IdsOf(originalEntries) : IsAddedId(id) }

\* C22: in every state reached by load, add, update, remove, toggle, discard
\* and markAsSaved, no two entries of entries share an id and no two entries
\* of originalEntries share an id; and an id addEntry gives out is new: it is
\* carried by no entry of either list, and it is later than every id
\* addEntry gave out before, so it is the id of no removed entry.
C22_IdsUniqueAndNeverReused ==
  /\ [](/\ UniqueIds(entries)
        /\ UniqueIds(originalEntries)
        /\ \A id \in AddedIdsHeld : id[3] < nextId)
  /\ [][\A id \in IdsOf(entries') \ IdsOf(entries) :
          IsAddedId(id) /\ id \notin IdsOf(originalEntries) =>
            /\ id[3] >= nextId
            /\ id[3] < nextId']_vars

\* an added entry was removed and another entry was added after it: the
\* second addition carries the second id, the first id is held nowhere
C22_Witness ==
  /\ nextId = 2
  /\ edits = 3
  /\ Len(entries) > 0
  /\ entries[Len(entries)].id = <<"entry", "new", 1>>
  /\ <<"entry", "new", 0>> \notin IdsOf(entries) \cup IdsOf(originalEntries)
  /\ Len(originalEntries) > 0

(***************************************************************************)
(* Comment lines that parse takes for disabled entries                     *)
(***************************************************************************)

\* the comment line at index k of the text gave an entry
CommentGaveEntry(k) ==
  /\ StartsWithHash(Trim(srcLines[k]))
  /\ Len(ParsedUpTo(k)) = Len(ParsedUpTo(k - 1)) + 1

\* C24: parse turns a line starting with "#" into a disabled entry only when
\* the text after the "#" begins with an address literal (decimal IPv4
\* groups, or IPv6 groups of hexadecimal digits) followed by at least one
\* more token; a free-text comment never becomes an entry.
C24_OnlyAddressCommentsBecomeEntries ==
  (cpc = "parsed" /\ origin = "lines") =>
    \A k \in 1..Len(srcLines) :
      CommentGaveEntry(k) =>
        /\ Len(SplitWs(CommentText(srcLines[k]))) >= 2
        /\ IsAddressLiteral(SplitWs(CommentText(srcLines[k]))[1])
        /\ ~ParsedUpTo(k)[Len(ParsedUpTo(k))].enabled

(***************************************************************************)
(* The unsaved-changes check                                               *)
(***************************************************************************)

\* checkUnsavedChanges(window): entries.some(e => isEntryUnsaved(e)), run in
\* the renderer on the store's lists
checkUnsavedChanges(ents, orig) ==
  \E k \in 1..Len(ents) : isEntryUnsavedMain(ents[k], orig)

\* handleBeforeUnload: entries.filter((e) => isEntryUnsaved(e)).length
unsavedCount(ents, orig) == Len(SelectSeq(ents, LAMBDA e : isEntryUnsaved(e, orig)))

\* the lists differ in content: an entry was added, removed or changed;
\* the order of the hostnames of an entry does not count
DiffersInContent(ents, orig) ==
  \/ IdsOf(ents) # IdsOf(orig)
  \/ \E k \in 1..Len(ents) :
       \E m \in 1..Len(orig) :
         /\ ents[k].id = orig[m].id
         /\ \/ ents[k].ip # orig[m].ip
            \/ ~SameHostnames(ents[k].hostnames, orig[m].hostnames)
            \/ ents[k].enabled # orig[m].enabled
            \/ ents[k].comment # orig[m].comment
            \/ ents[k].group # orig[m].group

\* C27: the unsaved-changes check is true whenever entries differs from
\* originalEntries in content, also when the only change is the removal of
\* entries: both checkUnsavedChanges in the main process and the count of
\* handleBeforeUnload in the renderer see the change.
C27_UnsavedCheckSeesEveryChange ==
  DiffersInContent(entries, originalEntries) =>
    /\ checkUnsavedChanges(entries, originalEntries)
    /\ unsavedCount(entries, originalEntries) > 0

(***************************************************************************)
(* The plain-text view against the text a save writes                      *)
(***************************************************************************)

RECURSIVE plainTextLines_InlineDisabledComment(_)
\* the view writing the comment of a disabled entry on the entry's line
plainTextLines_InlineDisabledComment(list) ==
  IF list = <<>> THEN <<>>
  ELSE formatEntry_InlineDisabledComment(Head(list))
         \o plainTextLines_InlineDisabledComment(Tail(list))

RECURSIVE plainTextLines(_)
\* the lines the for loop of convertToPlainText pushes
plainTextLines(list) ==
  IF list = <<>> THEN <<>>
  ELSE LET entry == Head(list)
           line == entry.ip \o <<" ">> \o Join(entry.hostnames, <<" ">>)
       IN  (IF entry.enabled
            THEN IF Truthy(entry.comment)
                 THEN <<line \o <<" ", "#", " ">> \o entry.comment>>
                 ELSE <<line>>
            ELSE <<<<"#", " ">> \o line>>
                   \o (IF Truthy(entry.comment)
                       THEN <<<<"#", " ">> \o entry.comment>>
                       ELSE <<>>))
             \o plainTextLines(Tail(list))

\* PlainTextContent.convertToPlainText(entries); now is new Date().toISOString()
convertToPlainText(list, now) ==
  Join(<<BannerLine, GeneratedAt \o now, <<>>>> \o plainTextLines(list), NL) \o NL

\* the filter of the save action: entries with an ip and a hostname array
validEntriesOf(list) == SelectSeq(list, LAMBDA e : e.ip # <<>>)

\* the text a save of list writes: the save action's filter, the preload
\* bridge, then HostsParser.stringify in writeHosts
savedText(list, now) == stringify(Serializable(validEntriesOf(list)), now)

\* the plain-text view renders the list: plainText = convertToPlainText(entries)
PlainText ==
  /\ cpc \in {"parsed", "entries"}
  /\ \E now \in Timestamps : outText' = convertToPlainText(ents0, now)
  /\ via' = "plainText"
  /\ cpc' = "written"
  /\ UNCHANGED <<origin, srcText, ents0, ents1, nonCodecVars>>

PlainTextNext == ParseText \/ PlainText \/ Stringify

SpecPlainText == CodecInit /\ [][PlainTextNext]_vars

\* the lines of a text apart from the timestamp line, which is cut down to
\* its fixed words
ApartFromTimestamp(text) ==
  [k \in 1..Len(Split(text, "\n")) |->
     IF k = 2 THEN SubSeq(Split(text, "\n")[k], 1, Len(GeneratedAt))
     ELSE Split(text, "\n")[k]]

\* C26: the plain-text view shows what a save writes: for a list the save
\* path accepts, the lines of convertToPlainText are, apart from the timestamp
\* in the header, the lines that the save action's filter followed by
\* stringify writes to the hosts file.
C26_PlainTextIsWhatSaveWrites ==
  (cpc = "written" /\ via = "plainText" /\ Len(ents0) > 0
     /\ validateEntriesForWrite(Serializable(validEntriesOf(ents0))) = NoError) =>
    \A now \in Timestamps :
      /\ ApartFromTimestamp(outText) = ApartFromTimestamp(savedText(ents0, now))
      /\ ApartFromTimestamp(outText)[2] = GeneratedAt

\* the view shows a disabled entry with a comment and an enabled entry with
\* a comment
C26_Witness ==
  /\ cpc = "written"
  /\ via = "plainText"
  /\ Len(ents0) = 2
  /\ ~ents0[1].enabled
  /\ Truthy(ents0[1].comment)
  /\ ents0[2].enabled
  /\ Truthy(ents0[2].comment)
  /\ Len(Split(outText, "\n")) = 7

(***************************************************************************)
(* The order of the steps of writeHosts                                    *)
(***************************************************************************)

PermissionDeniedMessage == "Permission denied: User canceled"

\* a writeHosts call begins with this step
CallBegins == calls' = calls + 1

\* C30: writeHosts runs validate, permission confirmation, backup, serialize
\* and write in this order, each step only after the earlier ones have
\* returned: the confirmation is asked only at the start of a call whose list
\* validation accepted, the backup step runs only after Continue (or at the
\* start of an accepted call without a window), the file is written only
\* after the backup step has run and holds the serialized list, and when the
\* user cancels the confirmation the call fails with the permission-denied
\* error, with no backup created and the hosts file not written, then or
\* later in that call.
C30_WriteStepsInOrder ==
  [][/\ prompts' # prompts =>
          /\ CallBegins
          /\ validateEntriesForWrite(wEntries') = NoError
          /\ wpc' = "dialog"
          /\ UNCHANGED <<hostsFile, backupFiles>>
     /\ (wpc' = "backup" /\ wpc # "backup") =>
          \/ wpc = "dialog"
          \/ CallBegins /\ validateEntriesForWrite(wEntries') = NoError
     /\ backupFiles' # backupFiles =>
          \/ wpc = "backup" /\ wpc' = "write"
          \/ wpc \in {"idle", "done", "failed"} /\ ~CallBegins
     /\ (wpc' = "write" /\ wpc # "write") =>
          /\ wpc = "backup"
          /\ wBackup' # "none"
          /\ UNCHANGED hostsFile
     /\ hostsFile' # hostsFile =>
          /\ wpc = "write"
          /\ wpc' = "done"
          /\ wBackup # "none"
          /\ \E now \in Timestamps : hostsFile' = stringify(wEntries, now)
     /\ (wpc = "dialog" /\ wpc' = "failed") =>
          /\ wError'.message = PermissionDeniedMessage
          /\ wBackup' = "none"
          /\ UNCHANGED <<hostsFile, backupFiles>>
     /\ (wpc = "failed" /\ ~CallBegins) =>
          /\ wpc' = "failed"
          /\ UNCHANGED <<hostsFile, wBackup, wError>>]_vars

\* a first call has made its backup and written the file; in a second call
\* the user has cancelled the confirmation
C30_Witness ==
  /\ calls = 2
  /\ prompts = 2
  /\ wpc = "failed"
  /\ wError # NoError
  /\ wError.message = PermissionDeniedMessage
  /\ wBackup = "none"
  /\ Len(backupFiles) = 1
  /\ hostsFile \notin InitialHostsFiles

(***************************************************************************)
(* The hosts-file watcher: the poll of watchHosts in the main process, the *)
(* "hosts:changed" message and the callback of App in the renderer.  One   *)
(* poll is in flight at a time.                                            *)
(***************************************************************************)

MaxChanges == 2

\* what the watcher, the file and the window leave alone in a watcher step
WatchFrame ==
  /\ UNCHANGED <<codecVars, closeVars>>
  /\ UNCHANGED <<backupFiles, wpc, wEntries, wError, wBackup, prompts, calls>>

\* the hosts file is changed from outside the application
ExternalChange ==
  /\ fileMtime <= MaxChanges
  /\ \E text \in StoreHostsFiles : hostsFile' = text
  /\ fileMtime' = fileMtime + 1
  /\ UNCHANGED <<lastModified, pollPc, channel, receivedMtime, storeVars>>
  /\ WatchFrame

\* the interval callback up to its second await: fs.stat answers, and when the
\* modification time differs lastModified is set and readHosts is called
WatchPollStat ==
  /\ pollPc = "idle"
  /\ fileMtime # lastModified
  /\ lastModified' = fileMtime
  /\ pollPc' = "reading"
  /\ UNCHANGED <<fileMtime, channel, receivedMtime, hostsFile, storeVars>>
  /\ WatchFrame

\* readHosts answers: callback(data), which sends "hosts:changed" when the
\* window is there
WatchPollRead ==
  /\ pollPc = "reading"
  /\ pollPc' = "idle"
  /\ channel' = IF win = "open"
                THEN Append(channel, [entries |-> ArrayValue(parse(hostsFile)),
                                      lastModified |-> fileMtime])
                ELSE channel
  /\ UNCHANGED <<fileMtime, lastModified, receivedMtime, hostsFile, storeVars>>
  /\ WatchFrame

\* readHosts rejects: the catch of the interval callback logs the error
WatchPollReadFail ==
  /\ pollPc = "reading"
  /\ pollPc' = "idle"
  /\ UNCHANGED <<fileMtime, lastModified, channel, receivedMtime, hostsFile, storeVars>>
  /\ WatchFrame

\* the renderer receives "hosts:changed": the callback of App calls setEntries
WatchReceive ==
  /\ channel # <<>>
  /\ LET data == Head(channel)
     IN  /\ IF isArray(data.entries)
            THEN /\ entries' = setEntries(data.entries)[1]
                 /\ originalEntries' = setEntries(data.entries)[2]
                 /\ persisted' = data.entries.items
            ELSE UNCHANGED <<entries, originalEntries, persisted>>
         /\ receivedMtime' = data.lastModified
  /\ Refiltered(entries', originalEntries')
  /\ channel' = Tail(channel)
  /\ loaded' = TRUE
  /\ UNCHANGED <<searchQuery, filterStatus, sortBy, sortOrder, savePc, validEntries, toast,
                 edits, nextId>>
  /\ UNCHANGED <<fileMtime, lastModified, pollPc, hostsFile>>
  /\ WatchFrame

WatcherNext ==
  \/ ExternalChange
  \/ WatchPollStat
  \/ WatchPollRead
  \/ WatchPollReadFail
  \/ WatchReceive
  \/ StoreAdd
  \/ StoreToggle

\* the readHosts call of a poll settles, with a document or with an error:
\* the steps WatchPollRead and WatchPollReadFail, and no other step
ReadHostsSettles ==
  /\ pollPc = "reading"
  /\ pollPc' = "idle"

\* the interval timer keeps firing, every readHosts call settles, every
\* message sent is received
SpecWatch ==
  /\ Init
  /\ [][WatcherNext]_vars
  /\ WF_vars(WatchPollStat)
  /\ WF_pollPc(ReadHostsSettles)
  /\ WF_vars(WatchReceive)

\* C25: whenever the modification time of the hosts file differs from the
\* last one the watcher saw, the renderer eventually receives the document
\* re-read and re-parsed at or after that change, the first poll included
\* (lastModified starts at 0), and the renderer applies each document it
\* receives as a full load.
C25_WatcherDeliversEveryChange ==
  /\ \A m \in 1..(MaxChanges + 1) :
       (fileMtime = m /\ lastModified # m) ~> (receivedMtime >= m)
  /\ [][Len(channel') < Len(channel) =>
          /\ entries' = Head(channel).entries.items
          /\ originalEntries' = Head(channel).entries.items]_vars

(***************************************************************************)
(* Closing and reloading the window with unsaved entries                   *)
(***************************************************************************)

MaxRequests == 3

\* what the window, its listeners and the dialog leave alone
CloseFrame == UNCHANGED <<codecVars, writeVars, watchVars>>

\* handleBeforeUnload of App: the unload is prevented when the working list
\* holds an unsaved entry
preventsUnload_Never(ents, orig) == FALSE

preventsUnload(ents, orig) == unsavedCount(ents, orig) > 0

\* the state one of the two listeners with call h, and every call awaiting
\* the dialog promise of h, is in after that promise resolved with result
Settled(h, result) ==
  /\ hpc' = [g \in Listeners |->
              IF g = h \/ (hpc[g] = "awaiting" /\ hwait[g] = h) THEN "idle" ELSE hpc[g]]
  /\ hres' = [g \in Listeners |->
               IF g = h \/ (hpc[g] = "awaiting" /\ hwait[g] = h) THEN result ELSE hres[g]]
  /\ hwait' = [g \in Listeners |->
                IF hpc[g] = "awaiting" /\ hwait[g] = h THEN "null" ELSE hwait[g]]

\* a listener calls showUnsavedChangesDialog, up to its first await: with a
\* dialog promise pending it awaits that promise, else it starts the check
ListenerStarts(h) ==
  /\ shown' = IF \A g \in Listeners : hpc[g] = "idle" THEN 0 ELSE shown
  /\ IF pendingDialog = "null"
     THEN /\ hpc' = [hpc EXCEPT ![h] = "checking"]
          /\ UNCHANGED <<hres, hwait>>
     ELSE IF dres[pendingDialog] = "pending"
     THEN /\ hpc' = [hpc EXCEPT ![h] = "awaiting"]
          /\ hwait' = [hwait EXCEPT ![h] = pendingDialog]
          /\ UNCHANGED hres
     ELSE /\ hres' = [hres EXCEPT ![h] = dres[pendingDialog]]
          /\ UNCHANGED <<hpc, hwait>>

\* the user asks to close the window: "close" is emitted, its listener returns
\* at its first await without event.preventDefault(), and the page is asked
\* to unload
RequestClose ==
  /\ win = "open"
  /\ unloadReq = "none"
  /\ hpc["close"] = "idle"
  /\ requests < MaxRequests
  /\ requests' = requests + 1
  /\ ListenerStarts("close")
  /\ unloadReq' = "close"
  /\ UNCHANGED <<win, pendingDialog, dres, clearTimers, storeVars>>
  /\ CloseFrame

\* the user asks to reload the page
RequestReload ==
  /\ win = "open"
  /\ unloadReq = "none"
  /\ requests < MaxRequests
  /\ requests' = requests + 1
  /\ unloadReq' = "reload"
  /\ UNCHANGED <<win, hpc, hres, hwait, pendingDialog, dres, clearTimers, shown, storeVars>>
  /\ CloseFrame

\* the page answers beforeunload. Prevented: "will-prevent-unload" is emitted,
\* its listener returns at its first await, the unload does not happen. Not
\* prevented: the window closes, or the page is built anew
BeforeUnload ==
  /\ unloadReq # "none"
  /\ IF preventsUnload(entries, originalEntries)
     THEN /\ hpc["unload"] = "idle"
          /\ ListenerStarts("unload")
          /\ UNCHANGED <<win, storeVars>>
     ELSE IF unloadReq = "close"
     THEN /\ win' = "closed"
          /\ UNCHANGED <<hpc, hres, hwait, shown, storeVars>>
     ELSE /\ entries' = <<>>
          /\ originalEntries' = <<>>
          /\ filteredEntries' = <<>>
          /\ searchQuery' = <<>>
          /\ filterStatus' = "all"
          /\ sortBy' = "none"
          /\ sortOrder' = "asc"
          /\ savePc' = "idle"
          /\ validEntries' = <<>>
          /\ toast' = "none"
          /\ persisted' = <<>>
          /\ loaded' = FALSE
          /\ UNCHANGED <<edits, nextId, win, hpc, hres, hwait, shown>>
  /\ unloadReq' = "none"
  /\ UNCHANGED <<pendingDialog, dres, clearTimers, requests>>
  /\ CloseFrame

\* checkUnsavedChanges answers a call. Nothing unsaved (or no window to ask):
\* the call returns true. Else the dialog is shown and answered, pendingDialog
\* is assigned; on "Cancel" the promise resolves with false and the timer that
\* clears pendingDialog is set, on "Discard Changes" discardUnsavedChanges is
\* awaited
CheckDone(h) ==
  /\ hpc[h] = "checking"
  /\ IF win = "open" /\ checkUnsavedChanges(entries, originalEntries)
     THEN /\ shown' = shown + 1
          /\ pendingDialog' = h
          /\ \/ /\ dres' = [dres EXCEPT ![h] = "false"]
                /\ clearTimers' = clearTimers + 1
                /\ Settled(h, "false")
             \/ /\ dres' = [dres EXCEPT ![h] = "pending"]
                /\ hpc' = [hpc EXCEPT ![h] = "discarding"]
                /\ UNCHANGED <<clearTimers, hres, hwait>>
     ELSE /\ hpc' = [hpc EXCEPT ![h] = "idle"]
          /\ hres' = [hres EXCEPT ![h] = "true"]
          /\ UNCHANGED <<hwait, shown, pendingDialog, dres, clearTimers>>
  /\ UNCHANGED <<win, unloadReq, requests, storeVars>>
  /\ CloseFrame

\* the script of discardUnsavedChanges runs in the page: discardChanges()
Discard(h) ==
  /\ hpc[h] = "discarding"
  /\ hpc' = [hpc EXCEPT ![h] = "verifying"]
  /\ IF win = "open"
     THEN /\ entries' = discardChanges(originalEntries)
          /\ Refiltered(entries', originalEntries)
     ELSE UNCHANGED <<entries, filteredEntries>>
  /\ UNCHANGED <<originalEntries, searchQuery, filterStatus, sortBy, sortOrder, savePc,
                 validEntries, toast, persisted, loaded, edits, nextId>>
  /\ UNCHANGED <<win, unloadReq, hres, hwait, pendingDialog, dres, clearTimers, shown,
                 requests>>
  /\ CloseFrame

\* after the wait and the second check the dialog promise resolves with true,
\* whatever the check found, and the timer that clears pendingDialog is set
Verify(h) ==
  /\ hpc[h] = "verifying"
  /\ dres' = [dres EXCEPT ![h] = "true"]
  /\ clearTimers' = clearTimers + 1
  /\ Settled(h, "true")
  /\ UNCHANGED <<win, unloadReq, pendingDialog, shown, requests, storeVars>>
  /\ CloseFrame

\* a timer set by a dialog fires: pendingDialog = null
ClearPending ==
  /\ clearTimers > 0
  /\ clearTimers' = clearTimers - 1
  /\ pendingDialog' = "null"
  /\ UNCHANGED <<win, unloadReq, hpc, hres, hwait, dres, shown, requests, storeVars>>
  /\ CloseFrame

CloseNext ==
  \/ StoreLoad
  \/ StoreAdd
  \/ StoreToggle
  \/ RequestClose
  \/ RequestReload
  \/ BeforeUnload
  \/ \E h \in Listeners : CheckDone(h)
  \/ \E h \in Listeners : Discard(h)
  \/ \E h \in Listeners : Verify(h)
  \/ ClearPending

SpecClose == ViewInit /\ [][CloseNext]_vars

\* the step in which a dialog was shown and answered "Cancel"
DialogCancelled ==
  /\ shown' = shown + 1
  /\ dres'[pendingDialog'] = "false"

\* the step in which the page ran discardChanges() for a dialog answered
\* "Discard Changes"
DiscardRan ==
  \E h \in Listeners : hpc[h] = "discarding" /\ hpc'[h] = "verifying" /\ win = "open"

\* C28: the window closes only in answer to a close request and only when no
\* entry of the working list is unsaved; while an entry is unsaved that is
\* reached from the dialog only through "Discard Changes", whose step resets
\* the working list to the original one; a dialog answered "Cancel" leaves
\* the window open and both lists as they are.
C28_ClosesOnlyAfterDiscard ==
  [][/\ (win = "open" /\ win' = "closed") =>
          /\ unloadReq = "close"
          /\ ~checkUnsavedChanges(entries, originalEntries)
          /\ UNCHANGED <<entries, originalEntries>>
     /\ DialogCancelled =>
          /\ win = "open" /\ win' = "open"
          /\ checkUnsavedChanges(entries', originalEntries')
          /\ UNCHANGED <<entries, originalEntries>>
     /\ DiscardRan =>
          /\ entries' = originalEntries
          /\ ~checkUnsavedChanges(entries', originalEntries')
          /\ UNCHANGED <<originalEntries, win>>]_vars

\* the dialog of the close listener was answered "Discard Changes", the
\* working list was reset, and a later close request closed the window
C28_Witness ==
  /\ win = "closed"
  /\ dres["close"] = "true"
  /\ entries # <<>>
  /\ entries = originalEntries

\* C29: among the requests that overlap (from a request that found no call of
\* showUnsavedChangesDialog running to the moment none is running again) at
\* most one dialog is shown.
C29_OneDialogForOverlappingRequests == shown <= 1

====
